---- MODULE Spec2Model ----
(***************************************************************************)
(* BaseScript: the compiler pipeline (parse -> generateIR -> compile), the *)
(* run / main drivers around it, and the checkAssertion helper that the    *)
(* compiled programs call.                                                 *)
(*                                                                         *)
(* Values.  A payload (the object under a command key) is a function from  *)
(* field names to strings; a field that is absent is not in its DOMAIN.    *)
(* Nested objects are flattened ("coords.x"), and the presence of a nested *)
(* object is the field with its bare name ("coords") holding "{}".  A      *)
(* scalar payload (newPage: true) is the single field "$".  The booleans   *)
(* are the strings "true" and "false", the numbers the strings of Numbers. *)
(* Program text is a sequence of statements, each the statement's template *)
(* and the values interpolated into it.                                    *)
(***************************************************************************)
EXTENDS Integers, Sequences, FiniteSets, TLC

VARIABLES
    currentFramework, \* compiler.js module variable `currentFramework`
    pc,               \* position of the pipeline under SpecCompile
    doc,              \* the deserialised script handed to the pipeline
    parsed,           \* what parse returned
    ir,               \* what generateIR returned
    compiled,         \* what compile returned
    files,            \* the file system: path -> program text
    req,              \* the run / main invocation in progress
    child,            \* the spawned `node output.js` process
    assertion,        \* one checkAssertion call: options, page, outcome
    lib               \* one call into utils.js or baseline.js: arguments, progress, result

vars == <<currentFramework, pc, doc, parsed, ir, compiled, files, req, child, assertion, lib>>

\* ------------------------------------------------------------------ bounds
\* longest step list of a script drawn from CoreSteps
MaxSteps == 2

\* ------------------------------------------------------------------ values
Booleans == {"true", "false"}
Numbers == {"0", "100", "200", "500", "2023"}
Empty == [f \in {} |-> ""]
Null == "null"

IsBoolean(v) == v \in Booleans
IsNumber(v) == v \in Numbers
IsString(v) == v \notin Booleans \cup Numbers
Has(p, f) == f \in DOMAIN p
\* JavaScript truthiness of the field f of p (an absent field is undefined)
Truthy(p, f) == Has(p, f) /\ p[f] # "" /\ p[f] # "false" /\ p[f] # "0"
Restrict(p, S) == [f \in (DOMAIN p) \cap S |-> p[f]]
Scalar(v) == [f \in {"$"} |-> v]

\* -------------------------------------------------------------- the schema
\* the keys of stepsSchema, in the order of its shape
StepKeys == <<"newPage", "emulate", "goto", "wait", "waitForSelector", "screenshot",
              "type", "click", "press", "focus", "hover", "baseline_scan", "assert", "close">>

KnownDevices == {"iPhone X", "Pixel 5"}
WaitUntilEvents == {"domcontentloaded", "networkidle0", "networkidle2", "load"}
ValidUrls == {"https://example.com", "https://github.com"}
\* strings the regex /(\d+)(ms|m|s)*/ finds a match in: those holding a digit
TimeoutTokens == {"0ms", "50ms", "500ms", "2s", "1s", "1m", "5", "3h"}
\* arrays of the enum ["high", "low", "false"], written out
AvailabilityLists == {"[]", "[high]", "[low]", "[high,low]", "[false]"}
Frameworks == {"puppeteer", "playwright", "selenium"}

\* the fields each step object keeps; zod strips every other field
SchemaFields(k) ==
    CASE k \in {"newPage", "close"} -> {"$"}
      [] k = "emulate" -> {"device"}
      [] k = "goto" -> {"url", "waitUntil"}
      [] k = "wait" -> {"timeout"}
      [] k \in {"waitForSelector", "focus", "hover"} -> {"selector"}
      [] k = "screenshot" -> {"path", "fullPage"}
      [] k = "type" -> {"selector", "text", "delay"}
      [] k = "click" -> {"selector", "coords", "coords.x", "coords.y"}
      [] k = "press" -> {"key"}
      [] k = "baseline_scan" -> {"availability", "year"}
      [] k = "assert" -> {"selector", "exists", "contains", "timeout"}
      [] OTHER -> {}

\* the fields that are not .optional() and have no .default()
SchemaRequired(k) ==
    CASE k \in {"newPage", "close"} -> {"$"}
      [] k = "emulate" -> {"device"}
      [] k = "goto" -> {"url"}
      [] k = "wait" -> {"timeout"}
      [] k \in {"waitForSelector", "focus", "hover"} -> {"selector"}
      [] k = "screenshot" -> {"path"}
      [] k = "type" -> {"selector", "text"}
      [] k = "press" -> {"key"}
      [] k = "baseline_scan" -> {"availability", "year"}
      [] k = "assert" -> {"selector"}
      [] OTHER -> {}

\* the type of one field
FieldOK(k, f, v) ==
    CASE f = "$" -> IsBoolean(v)
      [] f = "device" -> v \in KnownDevices
      [] f = "url" -> v \in ValidUrls
      [] f = "waitUntil" -> v \in WaitUntilEvents
      [] f = "timeout" -> v \in TimeoutTokens
      [] f \in {"fullPage", "exists"} -> IsBoolean(v)
      [] f \in {"coords.x", "coords.y", "year"} -> IsNumber(v)
      [] f = "coords" -> v = "{}"
      [] f = "availability" -> v \in AvailabilityLists
      [] OTHER -> IsString(v)

\* the .refine() predicates of click and assert, and the shape of coords
SchemaRefine(k, p) ==
    CASE k = "click" ->
            /\ Has(p, "coords") => (Has(p, "coords.x") /\ Has(p, "coords.y"))
            /\ (Truthy(p, "selector") \/ Has(p, "coords"))
      [] k = "assert" -> Truthy(p, "exists") \/ Truthy(p, "contains")
      [] OTHER -> TRUE

\* the .default() values
SchemaDefaults(k, p) ==
    IF k = "type" /\ ~Has(p, "delay") THEN [f \in {"delay"} |-> "0ms"] ELSE Empty

\* one key of a step object: whether its payload satisfies the key's schema
PayloadValid(k, raw) ==
    LET p == Restrict(raw, SchemaFields(k))
    IN /\ SchemaRequired(k) \subseteq DOMAIN p
       /\ \A f \in DOMAIN p : FieldOK(k, f, p[f])
       /\ SchemaRefine(k, p)

\* the payload zod returns for a valid key: known fields, defaults filled in
PayloadParsed(k, raw) ==
    LET p == Restrict(raw, SchemaFields(k)) IN p @@ SchemaDefaults(k, p)

IsStepKey(k) == \E i \in 1..Len(StepKeys) : StepKeys[i] = k

\* A step object as deserialised: its entries [key, val] in declared order.
StepHas(raw, k) == \E i \in 1..Len(raw) : raw[i].key = k
StepVal(raw, k) == raw[CHOOSE i \in 1..Len(raw) : raw[i].key = k].val

\* stepsSchema accepts the object when every key it knows has a valid payload;
\* keys it does not know are stripped, not rejected
StepValid(raw) ==
    \A i \in 1..Len(raw) : IsStepKey(raw[i].key) => PayloadValid(raw[i].key, raw[i].val)

\* the object stepsSchema returns: the known keys that are present, in the
\* order of the shape
stepsSchema(raw) ==
    LET keys == SelectSeq(StepKeys, LAMBDA k : StepHas(raw, k))
    IN [i \in 1..Len(keys) |-> [key |-> keys[i], val |-> PayloadParsed(keys[i], StepVal(raw, keys[i]))]]

\* browserConfigSchema: the union member is chosen by mode and only that
\* member's sub-object is checked and kept
BrowserValid(b) ==
    /\ Has(b, "mode") /\ b["mode"] \in {"launch", "connect"}
    /\ b["mode"] = "launch" =>
          /\ Has(b, "launch")
          /\ Has(b, "launch.executablePath") => IsString(b["launch.executablePath"])
          /\ Has(b, "launch.headless") => IsBoolean(b["launch.headless"])
    /\ b["mode"] = "connect" =>
          /\ Has(b, "connect")
          /\ Has(b, "connect.wsUrl") /\ IsString(b["connect.wsUrl"])

browserConfigSchema(b) ==
    IF b["mode"] = "launch"
    THEN Restrict(b, {"mode", "launch", "launch.executablePath", "launch.headless"})
         @@ [f \in {"launch.headless"} |-> "false"]
    ELSE Restrict(b, {"mode", "connect", "connect.wsUrl"})

\* A document as YAML.parse returns it: syntaxOk is whether YAML.parse returned
\* at all, order the top-level keys in declared order.
DocHas(d, k) == \E i \in 1..Len(d.order) : d.order[i] = k

SchemaKeys == <<"framework", "browser", "steps">>

SchemaAccepts(d) ==
    /\ d.syntaxOk
    /\ DocHas(d, "framework") /\ d.framework \in Frameworks
    /\ DocHas(d, "browser") /\ BrowserValid(d.browser)
    /\ DocHas(d, "steps") => \A i \in 1..Len(d.steps) : StepValid(d.steps[i])

\* the value schema.parse returns
schema(d) ==
    [keys |-> SelectSeq(SchemaKeys, LAMBDA k : DocHas(d, k)),
     framework |-> d.framework,
     browser |-> browserConfigSchema(d.browser),
     steps |-> [i \in 1..Len(d.steps) |-> stepsSchema(d.steps[i])]]

Undefined == [keys |-> <<>>, framework |-> "", browser |-> Empty, steps |-> <<>>]

\* parse: the catch block logs the error and falls off the end of the
\* function, so the caller gets undefined and nothing is raised
parse(d) ==
    IF SchemaAccepts(d)
    THEN [raised |-> FALSE, defined |-> TRUE, doc |-> schema(d)]
    ELSE [raised |-> FALSE, defined |-> FALSE, doc |-> Undefined]

\* ------------------------------------------------------------ generateIR
\* one IR command; named is FALSE when cmd is undefined
Cmd(c, v) == [named |-> TRUE, cmd |-> c, value |-> v]
Nameless == [named |-> FALSE, cmd |-> "", value |-> Empty]

\* the command pushed for one step: its first key and that key's payload
StepCmd(obj) == IF Len(obj) = 0 THEN Nameless ELSE Cmd(obj[1].key, obj[1].val)

RECURSIVE KeyCmds(_, _)
KeyCmds(d, i) ==
    IF i > Len(d.keys) THEN <<>>
    ELSE (IF d.keys[i] = "steps"
          THEN [j \in 1..Len(d.steps) |-> StepCmd(d.steps[j])]
          ELSE IF d.keys[i] = "framework"
          THEN <<Cmd("framework", Scalar(d.framework))>>
          ELSE <<Cmd("browser", d.browser)>>) \o KeyCmds(d, i + 1)

EOFOperation_Swapped(mode) == IF mode = "launch" THEN "disconnect" ELSE "close"

EOFOperation(mode) == IF mode = "launch" THEN "close" ELSE "disconnect"

\* (as generateIR, but an undefined document is read as an empty one)
generateIR_Tolerant(p) ==
    IF ~p.defined
    THEN [threw |-> FALSE, ast |-> <<Cmd("EOF", [f \in {"operation"} |-> EOFOperation("launch")])>>]
    ELSE LET ast == KeyCmds(p.doc, 1)
         IN [threw |-> FALSE,
             ast |-> Append(ast, Cmd("EOF", [f \in {"operation"} |-> EOFOperation(p.doc.browser["mode"])]))]

\* generateIR(doc); Object.keys(undefined) raises a TypeError
generateIR(p) ==
    IF ~p.defined THEN [threw |-> TRUE, ast |-> <<>>]
    ELSE LET ast == KeyCmds(p.doc, 1)
             found == {i \in 1..Len(ast) : ast[i].named /\ ast[i].cmd = "browser"}
             mode == IF found # {} /\ Truthy(ast[CHOOSE i \in found : \A j \in found : i <= j].value, "mode")
                     THEN ast[CHOOSE i \in found : \A j \in found : i <= j].value["mode"]
                     ELSE "launch"
         IN [threw |-> FALSE,
             ast |-> Append(ast, Cmd("EOF", [f \in {"operation"} |-> EOFOperation(mode)]))]

\* ---------------------------------------------------------------- utils.js
\* A timeout token as the regex reads it: whether it holds a digit, the value
\* of its first run of digits, and the characters right after that run.
Shape(n, tail) == [digits |-> TRUE, n |-> n, tail |-> tail]
NoDigits == [digits |-> FALSE, n |-> 0, tail |-> <<>>]
\* the tokens that occur in scripts, spelled out
Lex(t) ==
    CASE t = "0ms" -> Shape(0, <<"m", "s">>)
      [] t = "50ms" -> Shape(50, <<"m", "s">>)
      [] t = "500ms" -> Shape(500, <<"m", "s">>)
      [] t = "1s" -> Shape(1, <<"s">>)
      [] t = "2s" -> Shape(2, <<"s">>)
      [] t = "1m" -> Shape(1, <<"m">>)
      [] t = "5" -> Shape(5, <<>>)
      [] t = "3h" -> Shape(3, <<"h">>)
      [] OTHER -> NoDigits

\* (?<unit>ms|s|m)* from position i of the tail: the alternatives are tried in
\* the order written, the star takes as many as it can, and the group keeps
\* the last one taken ("" stands for undefined, when none is)
RECURSIVE LastUnit(_, _, _)
LastUnit(tail, i, unit) ==
    IF i > Len(tail) THEN unit
    ELSE IF tail[i] = "m" /\ i < Len(tail) /\ tail[i + 1] = "s" THEN LastUnit(tail, i + 2, "ms")
    ELSE IF tail[i] = "s" THEN LastUnit(tail, i + 1, "s")
    ELSE IF tail[i] = "m" THEN LastUnit(tail, i + 1, "m")
    ELSE unit

\* the match of /(?<digit>\d+)(?<unit>ms|s|m)*/ in a token: null when the
\* token holds no digit
Token(n, u) == [matched |-> TRUE, digit |-> n, unit |-> u]
NoMatch == [matched |-> FALSE, digit |-> 0, unit |-> ""]
MatchShape(tok) == IF tok.digits THEN Token(tok.n, LastUnit(tok.tail, 1, "")) ELSE NoMatch
Match(t) == MatchShape(Lex(t))

\* the body of parseTimeout after the match; m.groups of a null match raises
\* a TypeError
TimeoutOf(m) ==
    IF ~m.matched THEN [threw |-> TRUE, timeout |-> 0]
    ELSE [threw |-> FALSE,
          timeout |-> CASE m.unit = "s" -> m.digit * 1000
                        [] m.unit = "m" -> m.digit * 60 * 1000
                        [] OTHER -> m.digit]

\* parseTimeout(delay)
parseTimeout(delay) == TimeoutOf(Match(delay))

\* ------------------------------------------------------------ the handlers
\* One statement block of program text: the template and what is interpolated.
Stmt(text, args) == [text |-> text, args |-> args]
\* what a handler method gives back: text, nothing (null, undefined), or a raise
Text(text, args) == [threw |-> FALSE, out |-> <<Stmt(text, args)>>]
NoText == [threw |-> FALSE, out |-> <<>>]
Throws == [threw |-> TRUE, out |-> <<>>]

\* `${value.f}` for each f of fs: an absent field is written "undefined"
Interp(value, fs) == [f \in fs |-> IF Has(value, f) THEN value[f] ELSE "undefined"]
\* the fields of one nested object of value
Sub(value, name, fs) == Restrict(value, {name} \cup fs)

ScrollText(value, sel, to, by) ==
    IF Has(value, "to")
    THEN IF Truthy(value, "to.selector")
         THEN Text(sel, Interp(value, {"to.selector"}))
         ELSE Text(to, Interp(value, {"to.coords.x", "to.coords.y"}))
    ELSE Text(by, Interp(value, {"by.dx", "by.dy"}))

BaselineConfig(value) ==
    [includeAvailability |-> Interp(value, {"availability"})["availability"],
     baselineYearThreshold |-> Interp(value, {"year"})["year"],
     includeNotBaseline |-> "true",
     strictness |-> "relaxed"] @@ Restrict(value, {"delay"})

\* the text handleFramework returns: the imports, the bindings and checkAssertion
PuppeteerPrologue == "import puppeteer; let page, browser; async function checkAssertion(page, options)"
PlaywrightPrologue == "import { chromium }; let page, browser, context; async function checkAssertion(page, options)"
SeleniumPrologue == "import { Builder, By, until }; let driver; async function checkAssertion(driver, options)"

PuppeteerMethods == {"framework", "browser", "emulate", "goto", "waitForSelector", "screenshot",
                     "type", "click", "press", "focus", "hover", "close", "wait", "assert",
                     "baseline_scan", "EOF", "scroll"}

PuppeteerHandler(cmd, value) ==
    CASE cmd = "framework" -> Text(PuppeteerPrologue, Empty)
      [] cmd = "browser" ->
            (CASE Has(value, "mode") /\ value["mode"] = "launch" ->
                    Text("browser = await puppeteer.launch(${launch}); page = await browser.newPage()",
                         Sub(value, "launch", {"launch.executablePath", "launch.headless"}))
               [] Has(value, "mode") /\ value["mode"] = "connect" ->
                    IF ~Has(value, "connect") THEN Throws
                    ELSE Text("browser = await puppeteer.connect({ browserWSEndpoint }); page = await browser.newPage()",
                              Interp(value, {"connect.wsUrl"}))
               [] OTHER -> NoText)
      [] cmd = "emulate" -> Text("await page.emulate(KnownDevices[${device}])", Interp(value, {"device"}))
      [] cmd = "goto" -> Text("await page.goto(${url}, { waitUntil })", Interp(value, {"url", "waitUntil"}))
      [] cmd = "waitForSelector" -> Text("await page.waitForSelector(${selector})", Interp(value, {"selector"}))
      [] cmd = "screenshot" -> Text("await page.screenshot(${value})", value)
      [] cmd = "type" ->
            IF ~Has(value, "delay") \/ parseTimeout(value["delay"]).threw THEN Throws
            ELSE Text("await page.type(${selector}, ${text}, { delay })",
                      Interp(value, {"selector", "text"})
                        @@ [f \in {"delay"} |-> ToString(parseTimeout(value["delay"]).timeout)])
      [] cmd = "click" ->
            IF Truthy(value, "selector")
            THEN Text("await page.locator(${selector}).click()", Interp(value, {"selector"}))
            ELSE IF ~Has(value, "coords") THEN Throws
            ELSE Text("await page.mouse.click(${x}, ${y})", Interp(value, {"coords.x", "coords.y"}))
      [] cmd = "press" -> Text("await page.keyboard.press(${key})", Interp(value, {"key"}))
      [] cmd = "focus" -> Text("await page.focus(${selector})", Interp(value, {"selector"}))
      [] cmd = "hover" -> Text("await page.hover(${selector})", Interp(value, {"selector"}))
      [] cmd = "close" -> Text("await page.close()", Empty)
      [] cmd = "wait" -> Text("await sleep(${timeout})", Interp(value, {"timeout"}))
      [] cmd = "assert" -> Text("await checkAssertion(page, ${options})", value)
      [] cmd = "baseline_scan" ->
            Text("await baselineScanPipeline(page, ${config}, 'puppeteer')", BaselineConfig(value))
      [] cmd = "EOF" ->
            IF Has(value, "operation") /\ value["operation"] = "close"
            THEN Text("await browser.close()", Empty)
            ELSE Text("await browser.disconnect()", Empty)
      [] cmd = "scroll" ->
            ScrollText(value, "await page.evaluate(scrollIntoView, ${selector})",
                       "await page.evaluate(scrollTo, ${coords})", "await page.evaluate(scrollBy, ${by})")
      [] OTHER -> NoText

PlaywrightMethods == {"framework", "browser", "emulate", "goto", "waitForSelector", "screenshot",
                      "type", "click", "scan", "press", "focus", "hover", "close", "wait",
                      "assert", "baseline_scan", "EOF", "scroll"}

PlaywrightHandler(cmd, value) ==
    CASE cmd = "framework" -> Text(PlaywrightPrologue, Empty)
      [] cmd = "browser" ->
            (CASE Has(value, "mode") /\ value["mode"] = "launch" ->
                    Text("browser = await chromium.launch(${launch}); context = await browser.newContext(); page = await context.newPage()",
                         Sub(value, "launch", {"launch.executablePath", "launch.headless"}))
               [] Has(value, "mode") /\ value["mode"] = "connect" ->
                    IF ~Has(value, "connect") THEN Throws
                    ELSE Text("browser = await chromium.connectOverCDP(${wsUrl}); page = await browser.newPage()",
                              Interp(value, {"connect.wsUrl"}))
               [] OTHER -> NoText)
      [] cmd = "emulate" -> Text("// Note: Device emulation should be set during context creation in Playwright", Empty)
      [] cmd = "goto" -> Text("await page.goto(${url})", Interp(value, {"url"}))
      [] cmd = "waitForSelector" -> Text("await page.waitForSelector(${selector})", Interp(value, {"selector"}))
      [] cmd = "screenshot" -> Text("await page.screenshot(${value})", value)
      [] cmd = "type" ->
            IF ~Has(value, "delay") \/ parseTimeout(value["delay"]).threw THEN Throws
            ELSE Text("await page.fill(${selector}, ''); await page.type(${selector}, ${text}, { delay })",
                      Interp(value, {"selector", "text"})
                        @@ [f \in {"delay"} |-> ToString(parseTimeout(value["delay"]).timeout)])
      [] cmd = "click" ->
            IF Truthy(value, "selector")
            THEN Text("await page.click(${selector})", Interp(value, {"selector"}))
            ELSE IF ~Has(value, "coords") THEN Throws
            ELSE Text("await page.mouse.click(${x}, ${y})", Interp(value, {"coords.x", "coords.y"}))
      [] cmd \in {"scan", "scroll"} ->
            ScrollText(value, "await page.evaluate(scrollIntoView, ${selector})",
                       "await page.evaluate(scrollTo, ${coords})", "await page.evaluate(scrollBy, ${by})")
      [] cmd = "press" -> Text("await page.keyboard.press(${key})", Interp(value, {"key"}))
      [] cmd = "focus" -> Text("await page.focus(${selector})", Interp(value, {"selector"}))
      [] cmd = "hover" -> Text("await page.hover(${selector})", Interp(value, {"selector"}))
      [] cmd = "close" -> Text("await page.close()", Empty)
      [] cmd = "wait" -> Text("await sleep(${timeout})", Interp(value, {"timeout"}))
      [] cmd = "assert" -> Text("await checkAssertion(page, ${options})", value)
      [] cmd = "baseline_scan" ->
            Text("await baselineScanPipeline(page, ${config}, 'playwright')", BaselineConfig(value))
      [] cmd = "EOF" -> Text("await browser.close()", Empty)
      [] OTHER -> NoText

SeleniumMethods == {"framework", "browser", "emulate", "goto", "waitForSelector", "screenshot",
                    "type", "click", "press", "focus", "hover", "close", "wait", "assert",
                    "baseline_scan", "EOF", "scroll"}

SeleniumHandler(cmd, value) ==
    CASE cmd = "framework" -> Text(SeleniumPrologue, Empty)
      [] cmd = "browser" ->
            (CASE Has(value, "mode") /\ value["mode"] = "launch" ->
                    Text("driver = await new Builder().forBrowser('chrome').build()", Empty)
               [] Has(value, "mode") /\ value["mode"] = "connect" ->
                    IF ~Has(value, "connect") THEN Throws
                    ELSE Text("driver = await new Builder().forBrowser('chrome').usingServer(${wsUrl}).build()",
                              Interp(value, {"connect.wsUrl"}))
               [] OTHER -> NoText)
      [] cmd = "emulate" -> Text("// Device emulation requires specific Chrome options in Selenium", Empty)
      [] cmd = "goto" -> Text("await driver.get(${url})", Interp(value, {"url"}))
      [] cmd = "waitForSelector" ->
            Text("await driver.wait(until.elementLocated(By.css(${selector})), 10000)", Interp(value, {"selector"}))
      [] cmd = "screenshot" ->
            Text("await driver.takeScreenshot().then(data => fs.writeFileSync(${path}, data, 'base64'))",
                 Interp(value, {"path"}))
      [] cmd = "type" ->
            Text("await driver.findElement(By.css(${selector})).clear(); await driver.findElement(By.css(${selector})).sendKeys(${text})",
                 Interp(value, {"selector", "text"}))
      [] cmd = "click" ->
            IF Truthy(value, "selector")
            THEN Text("await driver.findElement(By.css(${selector})).click()", Interp(value, {"selector"}))
            ELSE IF ~Has(value, "coords") THEN Throws
            ELSE Text("await driver.actions().move({x, y}).click().perform()", Interp(value, {"coords.x", "coords.y"}))
      [] cmd = "press" -> Text("await driver.actions().sendKeys(${key}).perform()", Interp(value, {"key"}))
      [] cmd = "focus" -> Text("await driver.findElement(By.css(${selector})).click()", Interp(value, {"selector"}))
      [] cmd = "hover" ->
            Text("await driver.actions().move({origin: driver.findElement(By.css(${selector}))}).perform()",
                 Interp(value, {"selector"}))
      [] cmd = "close" -> Text("await driver.close()", Empty)
      [] cmd = "wait" -> Text("await sleep(${timeout})", Interp(value, {"timeout"}))
      [] cmd = "assert" -> Text("await checkAssertion(driver, ${options})", value)
      [] cmd = "baseline_scan" ->
            Text("await baselineScanPipeline(driver, ${config}, 'selenium')", BaselineConfig(value))
      [] cmd = "EOF" -> Text("await driver.quit()", Empty)
      [] cmd = "scroll" ->
            IF Has(value, "to")
            THEN IF Truthy(value, "to.selector")
                 THEN Text("await driver.executeScript(scrollIntoView ${selector})", Interp(value, {"to.selector"}))
                 ELSE IF ~Has(value, "to.coords") THEN Throws
                 ELSE Text("await driver.executeScript(scrollTo ${x}, ${y})", Interp(value, {"to.coords.x", "to.coords.y"}))
            ELSE IF ~Has(value, "by") THEN Throws
            ELSE Text("await driver.executeScript(scrollBy ${dx}, ${dy})", Interp(value, {"by.dx", "by.dy"}))
      [] OTHER -> NoText

\* FrameworkHandler.handle: the method handle<Cmd> when the handler has one
\* (cmd.charAt of an undefined cmd raises a TypeError), else null
handle(fw, line) ==
    IF ~line.named THEN Throws
    ELSE CASE fw = "puppeteer" /\ line.cmd \in PuppeteerMethods -> PuppeteerHandler(line.cmd, line.value)
           [] fw = "playwright" /\ line.cmd \in PlaywrightMethods -> PlaywrightHandler(line.cmd, line.value)
           [] fw = "selenium" /\ line.cmd \in SeleniumMethods -> SeleniumHandler(line.cmd, line.value)
           [] OTHER -> NoText

\* the acknowledgement emitted after a handled command
Ack(cmd) == Stmt("console.log(Step ${cmd})", [f \in {"cmd"} |-> cmd])
IsAck(st) == st.text = "console.log(Step ${cmd})"

\* the loop of compile over ir[i..], with the code gathered so far
RECURSIVE CompileLines(_, _, _, _)
\* (as CompileLines, but the loop ends at the first command without text)
CompileLines_StopAtNull(lines, i, fw, code) ==
    IF i > Len(lines) THEN [threw |-> FALSE, code |-> code]
    ELSE IF fw \notin Frameworks THEN [threw |-> TRUE, code |-> <<>>]
    ELSE LET generatedCode == handle(fw, lines[i])
         IN IF generatedCode.threw THEN [threw |-> TRUE, code |-> <<>>]
            ELSE IF generatedCode.out = <<>> THEN [threw |-> FALSE, code |-> code]
            ELSE CompileLines(lines, i + 1, fw, code \o generatedCode.out \o <<Ack(lines[i].cmd)>>)

CompileLines(lines, i, fw, code) ==
    IF i > Len(lines) THEN [threw |-> FALSE, code |-> code]
    ELSE IF fw \notin Frameworks THEN [threw |-> TRUE, code |-> <<>>]
    ELSE LET generatedCode == handle(fw, lines[i])
         IN IF generatedCode.threw THEN [threw |-> TRUE, code |-> <<>>]
            ELSE CompileLines(lines, i + 1, fw,
                     IF generatedCode.out # <<>>
                     THEN code \o generatedCode.out \o <<Ack(lines[i].cmd)>>
                     ELSE code)

\* (as FrameworkOf, but a framework once chosen is kept)
FrameworkOf_Sticky(lines, current) ==
    LET found == {i \in 1..Len(lines) : lines[i].named /\ lines[i].cmd = "framework"}
    IN IF found = {} \/ current # Null THEN current
       ELSE lines[CHOOSE i \in found : \A j \in found : i <= j].value["$"]

\* the value compile leaves in currentFramework
FrameworkOf(lines, current) ==
    LET found == {i \in 1..Len(lines) : lines[i].named /\ lines[i].cmd = "framework"}
    IN IF found = {} THEN current
       ELSE lines[CHOOSE i \in found : \A j \in found : i <= j].value["$"]

\* compile(ir) with currentFramework = current: the text, or a raise
compile(lines, current) ==
    CompileLines(lines, 1, FrameworkOf(lines, current), <<>>)
        @@ [currentFramework |-> FrameworkOf(lines, current)]

\* ---------------------------------------------------------- checkAssertion
\* The page as one checkAssertion call finds it: whether the selector matches
\* an element, the element's trimmed textContent, whether it is displayed and
\* whether it intersects the viewport.
Texts == {"", "Hello", "Hello World"}
PageStates ==
    {pg \in [present : BOOLEAN, text : Texts, visible : BOOLEAN, inViewport : BOOLEAN] :
        /\ ~pg.present => (pg.text = "" /\ ~pg.visible)
        /\ pg.inViewport => pg.visible}

\* text.includes(s), and new RegExp(pattern).test(text) for the patterns used
Includes(text, s) == s = "" \/ s = text \/ (text = "Hello World" /\ s \in {"Hello", "World"})
RegExpTest(pattern, text) ==
    CASE pattern = "^Hello" -> text \in {"Hello", "Hello World"}
      [] pattern = "World$" -> text = "Hello World"
      [] OTHER -> FALSE

\* options.throwOnFail !== false
ThrowOnFail_Strict(options) == Has(options, "throwOnFail") /\ options["throwOnFail"] = "true"

ThrowOnFail(options) == ~(Has(options, "throwOnFail") /\ options["throwOnFail"] = "false")

\* the catch block: rethrow, or return false
Caught(options) == IF ThrowOnFail(options) THEN "throw" ELSE "false"

\* "Perform assertions": the first kind whose option is set decides the result
AssertionResult(options, element, text, isVisible) ==
    CASE Truthy(options, "contains") -> Includes(text, options["contains"])
      [] ~Truthy(options, "contains") /\ Truthy(options, "equals") -> text = options["equals"]
      [] ~Truthy(options, "contains") /\ ~Truthy(options, "equals") /\ Truthy(options, "matches") ->
            RegExpTest(options["matches"], text)
      [] ~Truthy(options, "contains") /\ ~Truthy(options, "equals") /\ ~Truthy(options, "matches")
         /\ Has(options, "exists") -> (IF options["exists"] = "true" THEN element ELSE ~element)
      [] ~Truthy(options, "contains") /\ ~Truthy(options, "equals") /\ ~Truthy(options, "matches")
         /\ ~Has(options, "exists") /\ Has(options, "visible") ->
            (IF options["visible"] = "true" THEN isVisible ELSE ~isVisible)
      [] OTHER -> TRUE

\* "if (!result)": the throw lands in the catch block of the same function
Settle(options, result) == IF result THEN "true" ELSE Caught(options)

\* the wait for the selector: raises when parseTimeout does or when no element
\* shows up before the timeout
WaitFails(options, pg) ==
    Truthy(options, "timeout") /\ (parseTimeout(options["timeout"]).threw \/ ~pg.present)

ExistsIsFalse(options) == Has(options, "exists") /\ options["exists"] = "false"

\* checkAssertion of the puppeteer prologue
PuppeteerCheckAssertion(options, pg) ==
    IF WaitFails(options, pg) THEN Caught(options)
    ELSE IF ~pg.present /\ ~ExistsIsFalse(options) THEN Caught(options)
    ELSE Settle(options, AssertionResult(options, pg.present, IF pg.present THEN pg.text ELSE "",
                                         pg.present /\ pg.inViewport))

\* checkAssertion of the playwright prologue
PlaywrightCheckAssertion(options, pg) ==
    IF WaitFails(options, pg) THEN Caught(options)
    ELSE IF ~pg.present /\ ~ExistsIsFalse(options) THEN Caught(options)
    ELSE Settle(options, AssertionResult(options, pg.present, IF pg.present THEN pg.text ELSE "",
                                         pg.present /\ pg.visible))

\* checkAssertion of the selenium prologue; getText gives the rendered text,
\* which is empty for an element that is not displayed
SeleniumCheckAssertion(options, pg) ==
    IF WaitFails(options, pg) THEN Caught(options)
    ELSE IF ~pg.present /\ ~ExistsIsFalse(options) THEN Caught(options)
    ELSE Settle(options, AssertionResult(options, pg.present,
                                         IF pg.present /\ pg.visible THEN pg.text ELSE "",
                                         pg.present /\ pg.visible))

\* checkAssertion of utils.js, which takes the framework as an argument
checkAssertion(options, pg, framework) ==
    IF WaitFails(options, pg)
       /\ (framework \in Frameworks \/ parseTimeout(options["timeout"]).threw) THEN Caught(options)
    ELSE IF framework \in Frameworks /\ ~pg.present /\ ~ExistsIsFalse(options) THEN Caught(options)
    ELSE LET element == framework \in Frameworks /\ pg.present
             text == CASE framework \in {"puppeteer", "playwright"} /\ pg.present -> pg.text
                       [] framework = "selenium" /\ pg.present /\ pg.visible -> pg.text
                       [] OTHER -> ""
             isVisible == CASE framework = "puppeteer" -> element /\ pg.inViewport
                            [] framework \in {"playwright", "selenium"} -> element /\ pg.visible
                            [] OTHER -> FALSE
         IN Settle(options, AssertionResult(options, element, text, isVisible))

\* the checkAssertion a compiled program of the framework runs
EmittedCheckAssertion(framework, options, pg) ==
    CASE framework = "puppeteer" -> PuppeteerCheckAssertion(options, pg)
      [] framework = "playwright" -> PlaywrightCheckAssertion(options, pg)
      [] OTHER -> SeleniumCheckAssertion(options, pg)

\* ------------------------------------------------------- scripts considered
Step(k, v) == <<[key |-> k, val |-> v]>>
F1(f, v) == [x \in {f} |-> v]

GotoStep == Step("goto", F1("url", "https://example.com") @@ F1("waitUntil", "load"))
TypeStep == Step("type", F1("selector", "#q") @@ F1("text", "admin"))
\* a delay with no digit in it: z.string() accepts it
TypeSlowStep == Step("type", F1("selector", "#q") @@ F1("text", "admin") @@ F1("delay", "fast"))
AssertStep == Step("assert", F1("selector", "h1") @@ F1("contains", "Hello"))
AssertNoThrowStep ==
    Step("assert", F1("selector", "h1") @@ F1("contains", "Hello") @@ F1("throwOnFail", "false"))
ScrollStep == Step("scroll", F1("by", "{}") @@ F1("by.dx", "0") @@ F1("by.dy", "500"))
NewPageStep == Step("newPage", Scalar("true"))
CloseStep == Step("close", Scalar("true"))
BadClickStep == Step("click", Empty)

\* the three forms of scroll the commands reference gives
ScrollSteps ==
    {ScrollStep,
     Step("scroll", F1("to", "{}") @@ F1("to.selector", "#footer")),
     Step("scroll", F1("to", "{}") @@ F1("to.coords", "{}") @@ F1("to.coords.x", "0") @@ F1("to.coords.y", "500"))}

\* assert steps with a selector and one assertion kind of the commands reference
AssertKindSteps ==
    {Step("assert", F1("selector", "h1") @@ F1(k, v)) :
        <<k, v>> \in {<<"exists", "true">>, <<"exists", "false">>, <<"contains", "Hello">>,
                      <<"equals", "Hello">>, <<"matches", "^Hello">>,
                      <<"visible", "true">>, <<"visible", "false">>}}

\* a scan with no delay given
BaselineScanStep == Step("baseline_scan", F1("availability", "[high]") @@ F1("year", "2023"))

\* the steps scripts of up to MaxSteps steps are made of
CoreSteps == {GotoStep, TypeStep, TypeSlowStep, AssertNoThrowStep, ScrollStep, NewPageStep,
              CloseStep, BadClickStep}

\* the steps tried alone: the whole vocabulary, and objects outside it
StepCatalogue ==
    CoreSteps \cup
    {AssertStep,
     Step("emulate", F1("device", "iPhone X")),
     Step("emulate", F1("device", "Nokia 3310")),
     Step("goto", F1("url", "not a url")),
     Step("wait", F1("timeout", "2s")),
     Step("waitForSelector", F1("selector", "#login")),
     Step("screenshot", F1("path", "shot.png") @@ F1("fullPage", "true")),
     Step("type", F1("selector", "#q") @@ F1("text", "admin") @@ F1("delay", "50ms")),
     Step("click", F1("selector", "#submit")),
     Step("click", F1("coords", "{}") @@ F1("coords.x", "100") @@ F1("coords.y", "200")),
     Step("press", F1("key", "Enter")),
     Step("focus", F1("selector", "#search")),
     Step("hover", F1("selector", ".menu")),
     Step("baseline_scan", F1("availability", "[high,low]") @@ F1("year", "2023") @@ F1("delay", "1s")),
     Step("assert", F1("selector", "h1") @@ F1("exists", "true") @@ F1("timeout", "2s")),
     Step("assert", F1("selector", "h1") @@ F1("exists", "false")),
     Step("assert", F1("selector", "h1")),
     Step("newPage", Scalar("yes")),
     Step("click", F1("selector", "#a")) \o GotoStep,
     <<>>}
    \cup ScrollSteps \cup AssertKindSteps \cup {BaselineScanStep}

LaunchBrowser == F1("mode", "launch") @@ F1("launch", "{}") @@ F1("launch.headless", "true")
ConnectBrowser == F1("mode", "connect") @@ F1("connect", "{}") @@ F1("connect.wsUrl", "ws://x")
Browsers == {LaunchBrowser, ConnectBrowser}
\* browser objects off the two documented shapes
OddBrowsers ==
    {F1("mode", "launch") @@ F1("launch", "{}"),
     LaunchBrowser @@ ConnectBrowser,
     ConnectBrowser @@ LaunchBrowser,
     F1("mode", "launch"),
     F1("mode", "connect") @@ F1("launch", "{}"),
     F1("mode", "attach") @@ F1("connect", "{}") @@ F1("connect.wsUrl", "ws://x"),
     F1("connect", "{}") @@ F1("connect.wsUrl", "ws://x")}

Script(fw, b, steps) ==
    [syntaxOk |-> TRUE, order |-> <<"framework", "browser", "steps">>,
     framework |-> fw, browser |-> b, steps |-> steps]

StepLists(S, n) == UNION {[1..m -> S] : m \in 0..n}

Scripts ==
    {Script(fw, b, l) : fw \in Frameworks, b \in Browsers, l \in StepLists(CoreSteps, MaxSteps)}
    \cup {Script(fw, ConnectBrowser, <<s>>) : fw \in Frameworks, s \in StepCatalogue}
    \cup {Script(fw, b, <<GotoStep>>) : fw \in Frameworks \cup {"cypress"}, b \in Browsers \cup OddBrowsers}
    \cup {[Script(fw, b, <<GotoStep, CloseStep>>) EXCEPT !.order = o] :
             fw \in Frameworks, b \in Browsers,
             o \in {<<"steps", "browser", "framework">>, <<"browser", "steps">>,
                    <<"name", "framework", "browser", "steps">>}}
    \cup {[Script(fw, b, <<>>) EXCEPT !.order = <<"framework", "browser">>] :
             fw \in Frameworks, b \in Browsers}
    \cup {[Script("puppeteer", LaunchBrowser, <<GotoStep>>) EXCEPT !.syntaxOk = FALSE]}

\* ------------------------------------------------- the pipeline, step by step
NoScript == [syntaxOk |-> FALSE, order |-> <<>>, framework |-> "", browser |-> Empty, steps |-> <<>>]
NoParse == [raised |-> FALSE, defined |-> FALSE, doc |-> Undefined]
NoIR == [threw |-> FALSE, ast |-> <<>>]
NoCode == [threw |-> FALSE, code |-> <<>>, currentFramework |-> Null, before |-> Null]

Untouched == UNCHANGED <<files, req, child, assertion, lib>>

InitCompile ==
    /\ currentFramework = Null
    /\ pc = "idle"
    /\ doc = NoScript
    /\ parsed = NoParse
    /\ ir = NoIR
    /\ compiled = NoCode
    /\ files = Empty
    /\ req = Empty
    /\ child = Empty
    /\ assertion = Empty
    /\ lib = Empty

\* const parsed = parse(code)
Parse(d) ==
    /\ pc = "idle"
    /\ doc' = d
    /\ parsed' = parse(d)
    /\ pc' = IF parse(d).raised THEN "raised" ELSE "parsed"
    /\ UNCHANGED <<currentFramework, ir, compiled>>
    /\ Untouched

\* const ir = generateIR(parsed)
GenerateIR ==
    /\ pc = "parsed"
    /\ ir' = generateIR(parsed)
    /\ pc' = IF generateIR(parsed).threw THEN "raised" ELSE "ir"
    /\ UNCHANGED <<currentFramework, doc, parsed, compiled>>
    /\ Untouched

\* const compiled = compile(ir)
Compile ==
    /\ pc = "ir"
    /\ LET r == compile(ir.ast, currentFramework)
       IN /\ compiled' = r @@ [before |-> currentFramework]
          /\ currentFramework' = r.currentFramework
          /\ pc' = IF r.threw THEN "raised" ELSE "compiled"
    /\ UNCHANGED <<doc, parsed, ir>>
    /\ Untouched

\* the pipeline is over; the process lives on with its currentFramework
Finish ==
    /\ pc \in {"compiled", "raised"}
    /\ pc' = "idle"
    /\ doc' = NoScript
    /\ parsed' = NoParse
    /\ ir' = NoIR
    /\ compiled' = NoCode
    /\ UNCHANGED currentFramework
    /\ Untouched

NextCompile ==
    \/ \E d \in Scripts : Parse(d)
    \/ GenerateIR
    \/ Compile
    \/ Finish

SpecCompile == InitCompile /\ [][NextCompile]_vars

\* ------------------------------------------------------------- the claims
\* generateIR has returned for the script in hand
IRDone == pc \in {"ir", "compiled"} \/ (pc = "raised" /\ compiled.threw)
\* compile has returned or raised for the script in hand
CompileDone == pc = "compiled" \/ (pc = "raised" /\ compiled.threw)

IsEOF(line) == line.named /\ line.cmd = "EOF"

\* C1: for every accepted document the IR ends with the teardown command, no
\* earlier command is a teardown, and its operation is "close" exactly when
\* browser.mode is "launch" ("disconnect" otherwise).
C1_TeardownLast ==
    IRDone =>
        LET a == ir.ast
            n == Len(a)
        IN /\ SchemaAccepts(doc)
           /\ n >= 1 /\ IsEOF(a[n])
           /\ \A i \in 1..(n - 1) : ~IsEOF(a[i])
           /\ a[n].value["operation"] \in {"close", "disconnect"}
           /\ a[n].value["operation"] = "close" <=> doc.browser["mode"] = "launch"

C1_Witness ==
    /\ pc = "ir"
    /\ doc.browser["mode"] = "connect"
    /\ Len(doc.steps) = MaxSteps
    /\ ir.ast[Len(ir.ast)].value["operation"] = "disconnect"

\* the steps a document declares; a command's value carries a declared payload
DeclaredSteps(d) == IF DocHas(d, "steps") THEN d.steps ELSE <<>>
Carries(value, declared) == \A f \in DOMAIN declared : Has(value, f) /\ value[f] = declared[f]

\* C2 (as claimed): the IR of an accepted document is the framework command,
\* the browser command, one command per declared step in declared order with
\* that step's key and payload, and the teardown: steps + 3 commands, none
\* nameless.
C2_IRIsDeclaredSteps ==
    IRDone =>
        LET a == ir.ast
            st == DeclaredSteps(doc)
        IN /\ Len(a) = Len(st) + 3
           /\ a[1].named /\ a[1].cmd = "framework" /\ a[1].value = Scalar(doc.framework)
           /\ a[2].named /\ a[2].cmd = "browser"
           /\ IsEOF(a[Len(a)])
           /\ \A i \in 1..Len(st) :
                 Len(st[i]) = 1 =>
                    /\ a[i + 2].named
                    /\ a[i + 2].cmd = st[i][1].key
                    /\ Carries(a[i + 2].value, st[i][1].val)

\* the commands of an IR whose handler gives text
HandledLines(fw, lines) == SelectSeq(lines, LAMBDA l : l.named /\ handle(fw, l).out # <<>>)

\* C3: what compile returns is, in IR order, the text of each command whose
\* handler gave text, each followed by one acknowledgement naming the command;
\* a command without text adds nothing and the commands after it are compiled.
C3_CompileConcatenates ==
    pc = "compiled" =>
        LET fw == compiled.currentFramework
            h == HandledLines(fw, ir.ast)
        IN /\ Len(compiled.code) = 2 * Len(h)
           /\ \A k \in 1..Len(h) :
                 /\ <<compiled.code[2 * k - 1]>> = handle(fw, h[k]).out
                 /\ compiled.code[2 * k] = Ack(h[k].cmd)

C3_Witness ==
    /\ pc = "compiled"
    /\ \E i, j \in 1..Len(ir.ast) :
          /\ i < j
          /\ handle(compiled.currentFramework, ir.ast[i]).out = <<>>
          /\ ir.ast[j].cmd = "goto"
          /\ \E k \in 1..Len(compiled.code) : compiled.code[k] = Ack("goto")

\* what a process that has compiled nothing yet makes of a document
Fresh(d) == compile(generateIR(parse(d)).ast, Null)

\* C4: the text (or the raise) a script compiles to is the same whenever it is
\* compiled: in a process that has compiled other scripts before it is what a
\* fresh process gives.
C4_Deterministic ==
    CompileDone =>
        /\ compiled.threw = Fresh(doc).threw
        /\ compiled.code = Fresh(doc).code

C4_Witness ==
    /\ pc = "compiled"
    /\ compiled.before \in Frameworks
    /\ compiled.before # doc.framework
    /\ Len(compiled.code) > 4

\* the command names a program acknowledges, in order; a document compiled
\* with another framework tag
AckSeq(code) ==
    LET acks == SelectSeq(code, IsAck) IN [i \in 1..Len(acks) |-> acks[i].args["cmd"]]
CompiledFor(d, fw) == Fresh([d EXCEPT !.framework = fw])

\* C5 (as claimed): with only the framework tag changed, a valid script
\* compiles on all three backends to programs with the same sequence of
\* acknowledgements.
C5_BackendUniform ==
    IRDone =>
        \A f1, f2 \in Frameworks :
            /\ CompiledFor(doc, f1).threw = CompiledFor(doc, f2).threw
            /\ AckSeq(CompiledFor(doc, f1).code) = AckSeq(CompiledFor(doc, f2).code)

\* C7 (as claimed): parse raises for a document that violates the grammar and
\* returns the document for one that satisfies it.
C7_ParseRaises ==
    pc # "idle" =>
        IF SchemaAccepts(doc) THEN parsed.defined /\ ~parsed.raised
        ELSE parsed.raised

\* the last statement block of a program, and what it does to the browser
FinalBlock(code) ==
    LET blocks == SelectSeq(code, LAMBDA st : ~IsAck(st)) IN blocks[Len(blocks)]
IsDisconnect(st) == st.text = "await browser.disconnect()"
IsClose(st) == st.text \in {"await browser.close()", "await driver.quit()"}

\* C8 (as claimed): the last statement block of the program disconnects from
\* the browser (and does not close it) when the mode is connect, and closes it
\* when the mode is launch, on every backend.
C8_TeardownMatchesMode ==
    pc = "compiled" =>
        /\ doc.browser["mode"] = "connect" =>
              IsDisconnect(FinalBlock(compiled.code)) /\ ~IsClose(FinalBlock(compiled.code))
        /\ doc.browser["mode"] = "launch" => IsClose(FinalBlock(compiled.code))

\* ------------------------------------------------ checkAssertion on its own
Opt(f, vs) == {Empty} \cup {F1(f, v) : v \in vs}
Join(A, B) == {a @@ b : a \in A, b \in B}

AssertOptions ==
    Join({F1("selector", "h1")},
      Join(Opt("contains", {"Hello", ""}),
        Join(Opt("equals", {"Hello"}),
          Join(Opt("matches", {"^Hello"}),
            Join(Opt("exists", Booleans),
              Join(Opt("visible", Booleans),
                Join(Opt("timeout", {"2s"}), Opt("throwOnFail", Booleans))))))))

NoCall == [options |-> Empty, page |-> [present |-> FALSE, text |-> "", visible |-> FALSE, inViewport |-> FALSE],
           framework |-> "", via |-> "", outcome |-> ""]

InitAssert ==
    /\ currentFramework = Null
    /\ pc = "idle"
    /\ doc = NoScript
    /\ parsed = NoParse
    /\ ir = NoIR
    /\ compiled = NoCode
    /\ files = Empty
    /\ req = Empty
    /\ child = Empty
    /\ lib = Empty
    /\ \E o \in AssertOptions, pg \in PageStates : assertion = [NoCall EXCEPT !.options = o, !.page = pg]

\* the compiled program calls the checkAssertion of its prologue
CallEmitted(fw) ==
    /\ assertion.via = ""
    /\ assertion' = [assertion EXCEPT !.framework = fw, !.via = "prologue",
                                      !.outcome = EmittedCheckAssertion(fw, assertion.options, assertion.page)]
    /\ UNCHANGED <<currentFramework, pc, doc, parsed, ir, compiled, files, req, child, lib>>

\* a program calls utils.js checkAssertion(context, options, framework)
CallUtils(fw) ==
    /\ assertion.via = ""
    /\ assertion' = [assertion EXCEPT !.framework = fw, !.via = "utils",
                                      !.outcome = checkAssertion(assertion.options, assertion.page, fw)]
    /\ UNCHANGED <<currentFramework, pc, doc, parsed, ir, compiled, files, req, child, lib>>

NextAssert ==
    \/ \E fw \in Frameworks : CallEmitted(fw)
    \/ \E fw \in Frameworks : CallUtils(fw)

SpecAssert == InitAssert /\ [][NextAssert]_vars

\* The kinds an options object asks for, and whether the page satisfies one.
Kinds == {"contains", "equals", "matches", "exists", "visible"}
Supplied(options) == {k \in Kinds : Has(options, k)}
KindHolds(k, options, pg, fw) ==
    LET text == IF fw = "selenium" /\ ~pg.visible THEN "" ELSE pg.text
        seen == IF fw = "puppeteer" THEN pg.inViewport ELSE pg.visible
    IN CASE k = "contains" -> Includes(text, options["contains"])
         [] k = "equals" -> text = options["equals"]
         [] k = "matches" -> RegExpTest(options["matches"], text)
         [] k = "exists" -> (options["exists"] = "true") = pg.present
         [] OTHER -> (options["visible"] = "true") = (pg.present /\ seen)

\* the assertion fails: the element is missing (and was not asserted to be),
\* or the one kind asked for does not hold
ConditionFails(options, pg, fw) ==
    \/ ~pg.present /\ ~ExistsIsFalse(options)
    \/ \E k \in Kinds : /\ Supplied(options) = {k}
                        /\ options[k] # ""
                        /\ ~KindHolds(k, options, pg, fw)

IsAssert(st) == st.text \in {"await checkAssertion(page, ${options})", "await checkAssertion(driver, ${options})"}
ProgramFramework(program) ==
    CASE program[1].text = PuppeteerPrologue -> "puppeteer"
      [] program[1].text = PlaywrightPrologue -> "playwright"
      [] OTHER -> "selenium"
Asserts(program) == SelectSeq(program, IsAssert)

RECURSIVE Exec(_, _, _, _)
Exec(program, i, pages, outcomes) ==
    IF i > Len(program) THEN [exit |-> 0, ran |-> Len(program), outcomes |-> outcomes]
    ELSE IF ~IsAssert(program[i]) THEN Exec(program, i + 1, pages, outcomes)
    ELSE LET o == EmittedCheckAssertion(ProgramFramework(program), program[i].args,
                                        pages[Len(outcomes) + 1])
         IN IF o = "throw" THEN [exit |-> 1, ran |-> i - 1, outcomes |-> Append(outcomes, o)]
            ELSE Exec(program, i + 1, pages, Append(outcomes, o))

Reqs == {"a", "b"}

RunScripts ==
    {Script("puppeteer", ConnectBrowser, <<AssertNoThrowStep, GotoStep>>),
     Script("selenium", LaunchBrowser, <<AssertStep>>),
     Script("playwright", ConnectBrowser, <<ScrollStep>>),
     Script("puppeteer", LaunchBrowser, <<BadClickStep>>),
     [Script("selenium", ConnectBrowser, <<>>) EXCEPT !.syntaxOk = FALSE]}

OutputFiles == {"output.js", "automation.js"}
Args == [outputFile : OutputFiles, compileOnly : BOOLEAN]

Idle == [state |-> "idle", via |-> "", doc |-> NoScript, compiled |-> <<>>,
         outputFile |-> "", compileOnly |-> FALSE]
NoChild == [state |-> "none", program |-> <<>>, exit |-> 0, ran |-> 0, outcomes |-> <<>>]

Init ==
    /\ currentFramework = Null
    /\ pc = "idle"
    /\ doc = NoScript
    /\ parsed = NoParse
    /\ ir = NoIR
    /\ compiled = NoCode
    /\ files = Empty
    /\ req = [r \in Reqs |-> Idle]
    /\ child = [r \in Reqs |-> NoChild]
    /\ assertion = NoCall
    /\ lib = Empty

\* parse, generateIR and compile in a row, as run and main call them
Pipeline(d, current) ==
    LET g == generateIR(parse(d))
    IN IF g.threw THEN [threw |-> TRUE, code |-> <<>>, currentFramework |-> current]
       ELSE compile(g.ast, current)

\* fs.writeFileSync(path, text)
WriteFile(fs, path, text) == [f \in {path} |-> text] @@ fs

\* run(code, io) in the server, up to its await: the script is compiled,
\* written to output.js and `node output.js` is spawned; a raise is rethrown
\* to the route, which answers 500
Run(r, d) ==
    /\ req[r].state = "idle"
    /\ LET c == Pipeline(d, currentFramework)
       IN /\ currentFramework' = c.currentFramework
          /\ IF c.threw
             THEN /\ req' = [req EXCEPT ![r] = [Idle EXCEPT !.state = "raised", !.via = "run", !.doc = d]]
                  /\ UNCHANGED <<files, child>>
             ELSE /\ files' = WriteFile(files, "output.js", c.code)
                  /\ child' = [child EXCEPT ![r] = [NoChild EXCEPT !.state = "spawned"]]
                  /\ req' = [req EXCEPT ![r] = [Idle EXCEPT !.state = "waiting", !.via = "run", !.doc = d,
                                                            !.compiled = c.code, !.outputFile = "output.js"]]
    /\ UNCHANGED <<pc, doc, parsed, ir, compiled, assertion, lib>>

\* main() of the CLI, a process of its own (its currentFramework starts null),
\* up to its await: the program goes to args.outputFile and, unless
\* --compile-only, spawnChildProcess spawns `node output.js`; a raise is
\* caught and the process exits with code 1
Main(r, d, args) ==
    /\ req[r].state = "idle"
    /\ LET c == Pipeline(d, Null)
           me == [Idle EXCEPT !.via = "main", !.doc = d, !.outputFile = args.outputFile,
                              !.compileOnly = args.compileOnly]
       IN IF c.threw
          THEN /\ req' = [req EXCEPT ![r] = [me EXCEPT !.state = "raised"]]
               /\ UNCHANGED <<files, child>>
          ELSE /\ files' = WriteFile(files, args.outputFile, c.code)
               /\ IF args.compileOnly
                  THEN /\ req' = [req EXCEPT ![r] = [me EXCEPT !.state = "returned", !.compiled = c.code]]
                       /\ UNCHANGED child
                  ELSE /\ req' = [req EXCEPT ![r] = [me EXCEPT !.state = "waiting", !.compiled = c.code]]
                       /\ child' = [child EXCEPT ![r] = [NoChild EXCEPT !.state = "spawned"]]
    /\ UNCHANGED <<currentFramework, pc, doc, parsed, ir, compiled, assertion, lib>>

\* the spawned node process loads output.js as it is now and runs it to its end
ChildRuns(r) ==
    /\ child[r].state = "spawned"
    /\ IF ~Has(files, "output.js")
       THEN child' = [child EXCEPT ![r] = [NoChild EXCEPT !.state = "exited", !.exit = 1]]
       ELSE LET program == files["output.js"]
            IN \E pages \in [1..Len(Asserts(program)) -> PageStates] :
                  child' = [child EXCEPT ![r] =
                               Exec(program, 1, pages, <<>>) @@ [state |-> "exited", program |-> program]]
    /\ UNCHANGED <<currentFramework, pc, doc, parsed, ir, compiled, files, req, assertion, lib>>

\* ps.on("close"): the promise resolves; run returns the text, main ends
ChildClosed(r) ==
    /\ child[r].state = "exited"
    /\ req[r].state = "waiting"
    /\ req' = [req EXCEPT ![r].state = "returned"]
    /\ UNCHANGED <<currentFramework, pc, doc, parsed, ir, compiled, files, child, assertion, lib>>

\* the response is sent (or the CLI process is gone)
Done(r) ==
    /\ req[r].state \in {"returned", "raised"}
    /\ req' = [req EXCEPT ![r] = Idle]
    /\ child' = [child EXCEPT ![r] = NoChild]
    /\ UNCHANGED <<currentFramework, pc, doc, parsed, ir, compiled, files, assertion, lib>>

Next ==
    \/ \E r \in Reqs, d \in RunScripts : Run(r, d)
    \/ \E r \in Reqs, d \in RunScripts, args \in Args : Main(r, d, args)
    \/ \E r \in Reqs : ChildRuns(r)
    \/ \E r \in Reqs : ChildClosed(r)
    \/ \E r \in Reqs : Done(r)

Spec == Init /\ [][Next]_vars

\* C6: a script that fails validation makes run (main) end in a raise (an
\* exit with code 1) without anything written to a file and without a child
\* process spawned for it.
C6_InvalidScriptEmitsNothing ==
    [][\A r \in Reqs :
          (req[r].state = "idle" /\ req'[r].state # "idle" /\ ~SchemaAccepts(req'[r].doc)) =>
              /\ req'[r].state = "raised"
              /\ files' = files
              /\ child'[r] = NoChild]_vars

C6_Witness ==
    \E r \in Reqs :
        /\ req[r].state = "raised"
        /\ req[r].via = "run"
        /\ ~SchemaAccepts(req[r].doc)
        /\ currentFramework # Null
        /\ Has(files, "output.js")

\* the document has an assert step that sets throwOnFail: false
HasNoThrowAssert(d) ==
    \E i \in 1..Len(d.steps) : \E j \in 1..Len(d.steps[i]) :
        /\ d.steps[i][j].key = "assert"
        /\ Has(d.steps[i][j].val, "throwOnFail")
        /\ d.steps[i][j].val["throwOnFail"] = "false"

\* C10 (as claimed): when an assert step sets throwOnFail: false, the options
\* of the emitted checkAssertion call carry throwOnFail = false, so a failing
\* assertion returns false and the program goes on to its end.
C10_NoThrowContinues ==
    \A r \in Reqs :
        (req[r].state \in {"waiting", "returned"} /\ HasNoThrowAssert(req[r].doc)) =>
            /\ \A k \in 1..Len(req[r].compiled) :
                  IsAssert(req[r].compiled[k]) =>
                     /\ Has(req[r].compiled[k].args, "throwOnFail")
                     /\ req[r].compiled[k].args["throwOnFail"] = "false"
            /\ (child[r].state = "exited" /\ child[r].program = req[r].compiled) =>
                  /\ \A k \in 1..Len(child[r].outcomes) : child[r].outcomes[k] # "throw"
                  /\ child[r].exit = 0
                  /\ child[r].ran = Len(child[r].program)

\* ------------------------------------------------- scroll and the vocabulary
\* the script has one step, and it is one of the scroll steps
IsScrollDoc(d) == Len(d.steps) = 1 /\ d.steps[1] \in ScrollSteps
\* the templates of the scroll statement blocks
ScrollTexts ==
    {"await page.evaluate(scrollIntoView, ${selector})", "await page.evaluate(scrollTo, ${coords})",
     "await page.evaluate(scrollBy, ${by})", "await driver.executeScript(scrollIntoView ${selector})",
     "await driver.executeScript(scrollTo ${x}, ${y})", "await driver.executeScript(scrollBy ${dx}, ${dy})"}

\* C11 (as claimed): a script with a scroll step passes validation, its IR has
\* a scroll command carrying the step's payload, and it compiles on each
\* backend to a scroll statement block followed by the acknowledgement of
\* scroll.
C11_ScrollCompiles ==
    (pc # "idle" /\ SchemaAccepts(doc) /\ IsScrollDoc(doc)) =>
        /\ parsed.defined
        /\ pc # "parsed" =>
              /\ IRDone
              /\ \E i \in 1..Len(ir.ast) :
                    /\ ir.ast[i].named /\ ir.ast[i].cmd = "scroll"
                    /\ Carries(ir.ast[i].value, doc.steps[1][1].val)
        /\ CompileDone =>
              /\ ~compiled.threw
              /\ \E k \in 1..(Len(compiled.code) - 1) :
                    /\ compiled.code[k].text \in ScrollTexts
                    /\ compiled.code[k + 1] = Ack("scroll")

\* the command names generateIR's module lists, and the script vocabulary:
\* those and scroll
cmds == <<"framework", "browser", "emulate", "newPage", "goto", "wait", "waitForSelector",
          "screenshot", "type", "click", "press", "focus", "hover", "baseline_scan", "assert",
          "close">>
Vocabulary == {cmds[i] : i \in 1..Len(cmds)} \cup {"scroll"}
\* the names for which the handler of fw has a method handle<Name>
Methods(fw) ==
    CASE fw = "puppeteer" -> PuppeteerMethods
      [] fw = "playwright" -> PlaywrightMethods
      [] OTHER -> SeleniumMethods
HandledNames(fw) == (Vocabulary \cup {"EOF"}) \cap Methods(fw)

\* C12 (as claimed): for every command of the vocabulary and for the teardown
\* command, each of the three handlers gives program text (not null), and the
\* three handlers handle the same command names.
C12_FullVocabulary ==
    IRDone =>
        /\ \A i \in 1..Len(ir.ast) :
              (ir.ast[i].named /\ ir.ast[i].cmd \in Vocabulary \cup {"EOF"}) =>
                  \A fw \in Frameworks :
                      handle(fw, ir.ast[i]).threw \/ handle(fw, ir.ast[i]).out # <<>>
        /\ \A f1, f2 \in Frameworks : HandledNames(f1) = HandledNames(f2)

\* ------------------------------------------------------------ the validator
\* the script is otherwise valid and has one step, an assert
IsAssertDoc(d) ==
    /\ d.syntaxOk /\ d.framework \in Frameworks /\ BrowserValid(d.browser)
    /\ d.order = <<"framework", "browser", "steps">>
    /\ Len(d.steps) = 1 /\ Len(d.steps[1]) = 1 /\ d.steps[1][1].key = "assert"

\* C13 (as claimed): an assert step is accepted exactly when it has a selector
\* and at least one of exists (true or false), contains, equals, matches,
\* visible (true or false).
C13_AssertNeedsKind ==
    (pc # "idle" /\ IsAssertDoc(doc)) =>
        (parsed.defined <=>
            /\ Has(doc.steps[1][1].val, "selector")
            /\ Supplied(doc.steps[1][1].val) # {})

\* the script is valid but for its browser configuration
IsBrowserDoc(d) ==
    /\ d.syntaxOk /\ d.framework \in Frameworks
    /\ d.order = <<"framework", "browser", "steps">>
    /\ \A i \in 1..Len(d.steps) : StepValid(d.steps[i])
\* the sub-object of the declared mode is there, well formed, and the other is not
MatchingSubObjectOnly(b) ==
    /\ Has(b, "mode")
    /\ \/ b["mode"] = "launch" /\ Has(b, "launch") /\ ~Has(b, "connect")
       \/ b["mode"] = "connect" /\ Has(b, "connect") /\ Has(b, "connect.wsUrl") /\ ~Has(b, "launch")

\* C14 (as claimed): a browser configuration is accepted only when the
\* sub-object matching the declared mode is present and the other is absent;
\* one with both sub-objects, and one with neither, is rejected.
C14_BrowserModeExclusive ==
    (pc # "idle" /\ IsBrowserDoc(doc)) => (parsed.defined <=> MatchingSubObjectOnly(doc.browser))

\* ------------------------------------------------- parseTimeout on its own
\* longest run of characters after the digits of a token
MaxUnitLen == 3
UnitChars == {"m", "s", "i", "n", "h"}
TimeoutDigits == {0, 1, 2, 10, 500}
Tails == UNION {[1..k -> UnitChars] : k \in 0..MaxUnitLen}
TimeoutShapes == {Shape(n, tail) : n \in TimeoutDigits, tail \in Tails} \cup {NoDigits}

InitTimeout ==
    /\ currentFramework = Null
    /\ pc = "idle"
    /\ doc = NoScript
    /\ parsed = NoParse
    /\ ir = NoIR
    /\ compiled = NoCode
    /\ files = Empty
    /\ req = Empty
    /\ child = Empty
    /\ assertion = Empty
    /\ \E tok \in TimeoutShapes :
          lib = [op |-> "parseTimeout", delay |-> tok, done |-> FALSE, threw |-> FALSE, timeout |-> 0]

\* parseTimeout(delay) is called and returns or raises
CallParseTimeout ==
    /\ lib.op = "parseTimeout" /\ ~lib.done
    /\ lib' = [lib EXCEPT !.done = TRUE,
                          !.threw = TimeoutOf(MatchShape(lib.delay)).threw,
                          !.timeout = TimeoutOf(MatchShape(lib.delay)).timeout]
    /\ UNCHANGED <<currentFramework, pc, doc, parsed, ir, compiled, files, req, child, assertion>>

NextTimeout == CallParseTimeout

SpecTimeout == InitTimeout /\ [][NextTimeout]_vars

\* the value the unit written after the digits stands for: m, s or ms, and
\* anything else (or nothing) read as milliseconds
UnitFactor(tail) ==
    CASE tail = <<"m">> -> 60000
      [] tail = <<"s">> -> 1000
      [] OTHER -> 1

\* C15 (as claimed): for a token of digits n followed by a unit, parseTimeout
\* returns n*60000 for m, n*1000 for s, n for ms, and n for an absent or
\* unrecognized unit.
C15_TimeoutUnits ==
    (lib.done /\ lib.delay.digits) =>
        /\ ~lib.threw
        /\ lib.timeout = lib.delay.n * UnitFactor(lib.delay.tail)

\* -------------------------------------------------------------- baseline.js
\* The web-features registry as createFeatureLookupMap reads it: the entries
\* in the order of Object.entries, each with its featureId, status.baseline
\* ("none" when there is none), the year of status.baseline_high_date (0 when
\* absent) and one compat_features key.
Feature(id, baseline, year, compatKey) ==
    [featureId |-> id, baseline |-> baseline, highYear |-> year, compatKey |-> compatKey]

\* compatKey.split('.')[2] for the css.properties / at-rules / selectors /
\* types keys, lower-cased; null for any other key
KeyOf(compatKey) ==
    CASE compatKey = "css.properties.gap" -> "gap"
      [] compatKey = "css.at-rules.container" -> "container"
      [] compatKey = "css.at-rules.container.style_queries_for_custom_properties" -> "container"
      [] compatKey = "css.properties.margin" -> "margin"
      [] compatKey = "css.at-rules.layer" -> "layer"
      [] compatKey = "css.properties.font-family.ui-serif" -> "font-family"
      [] OTHER -> Null

basicProperties == {"top", "right", "bottom", "left", "margin", "padding", "width", "height",
                    "color", "background", "border", "font-family", "display", "position",
                    "float", "text-align", "overflow", "cursor", "content", "align-items",
                    "justify-content", "flex-direction", "align-content", "transition",
                    "animation", "outline", "resize", "min-width", "max-width",
                    "min-height", "max-height", "align-self", "clip-path"}

\* featureId.includes('anchor') || ... || featureId.includes('view-timeline')
isSpecificFeature(featureId) ==
    featureId \in {"container-queries", "container-style-queries", "anchor-positioning",
                   "popover", "cascade-layers", "font-family-ui"}

\* the label of a status.baseline value; Null when it has no clear one
StatusLabel(baseline) ==
    CASE baseline = "false" -> "Not Baseline"
      [] baseline = "low" -> "Low Baseline"
      [] baseline \in {"true", "high"} -> "High Baseline"
      [] OTHER -> Null

\* a config: includeAvailability is a set of levels, baselineYearThreshold a
\* year, 0 for null
ListIncludes(list, x) == x \in list

shouldIncludeStatus(status, config) ==
    /\ ~(status = "Not Baseline" /\ ~config.includeNotBaseline)
    /\ ~(status = "Low Baseline" /\ ~ListIncludes(config.includeAvailability, "low"))
    /\ ~(status = "High Baseline" /\ ~ListIncludes(config.includeAvailability, "high"))

shouldIncludeFeature(featureData, status, config) ==
    /\ shouldIncludeStatus(status, config)
    /\ ~(/\ config.baselineYearThreshold # 0
         /\ featureData.highYear # 0
         /\ featureData.highYear < config.baselineYearThreshold)

\* the record a map holds for an identifier
Info(featureId, status, compatKey) == [featureId |-> featureId, status |-> status, compatKey |-> compatKey]
Set(map, key, info) == [k \in {key} |-> info] @@ map

\* "Only override if we don't have a mapping or this is more specific"
SetInMainLoop(map, key, statusLabel) ==
    ~Has(map, key) \/ statusLabel = "Not Baseline" \/ statusLabel = "Low Baseline"

\* the first loop of createFeatureLookupMap from entry i on, lookupMap so far
RECURSIVE MainLoop(_, _, _, _)
MainLoop(features, i, config, lookupMap) ==
    IF i > Len(features) THEN lookupMap
    ELSE LET data == features[i]
             statusLabel == StatusLabel(data.baseline)
             key == KeyOf(data.compatKey)
         IN IF \/ data.compatKey = Null
               \/ statusLabel = Null
               \/ ~shouldIncludeFeature(data, statusLabel, config)
               \/ key = Null
               \/ (key \in basicProperties /\ ~isSpecificFeature(data.featureId))
               \/ ~SetInMainLoop(lookupMap, key, statusLabel)
            THEN MainLoop(features, i + 1, config, lookupMap)
            ELSE MainLoop(features, i + 1, config,
                          Set(lookupMap, key, Info(data.featureId, statusLabel, data.compatKey)))

specificMappings ==
    <<<<"backdrop", "backdrop">>, <<"clamp", "min-max-clamp">>, <<"oklch", "oklab">>,
      <<"oklab", "oklab">>, <<"container", "container-queries">>,
      <<"anchor", "anchor-positioning">>, <<"popover", "popover">>, <<"layer", "cascade-layers">>>>

\* features[featureId]: the entry of that id, when the registry has one
HasFeature(features, featureId) == \E i \in 1..Len(features) : features[i].featureId = featureId
FeatureOf(features, featureId) ==
    features[CHOOSE i \in 1..Len(features) : features[i].featureId = featureId]

\* the second loop: the manual mappings are set whatever the map holds
RECURSIVE SpecificLoop(_, _, _)
SpecificLoop(features, j, lookupMap) ==
    IF j > Len(specificMappings) THEN lookupMap
    ELSE LET key == specificMappings[j][1]
             featureId == specificMappings[j][2]
         IN IF HasFeature(features, featureId)
               /\ StatusLabel(FeatureOf(features, featureId).baseline) # Null
            THEN SpecificLoop(features, j + 1,
                              Set(lookupMap, key,
                                  Info(featureId, StatusLabel(FeatureOf(features, featureId).baseline),
                                       "manual")))
            ELSE SpecificLoop(features, j + 1, lookupMap)

\* createFeatureLookupMap(config).lookupMap over the registry features
createFeatureLookupMap(config, features) ==
    SpecificLoop(features, 1, MainLoop(features, 1, config, Empty))

\* ------------------------------------- createFeatureLookupMap on its own
\* most entries of a registry
MaxFeatures == 2
FeatureIds == {"grid", "container-queries", "container-style-queries"}
CompatKeys == {"css.properties.gap", "css.at-rules.container", "css.properties.margin",
               "api.HTMLElement.popover", Null}
\* status.baseline with the year of baseline_high_date
Baselines == {<<"false", 0>>, <<"low", 0>>, <<"high", 2020>>, <<"high", 2024>>, <<"none", 0>>}
FeatureData ==
    {Feature(id, b[1], b[2], ck) : id \in FeatureIds, b \in Baselines, ck \in CompatKeys}
\* registries: no two entries under one featureId
Registries ==
    {fs \in UNION {[1..n -> FeatureData] : n \in 0..MaxFeatures} :
        \A i, j \in 1..Len(fs) : i # j => fs[i].featureId # fs[j].featureId}
Configs ==
    [includeAvailability : {{"high"}, {"low", "high"}}, includeNotBaseline : BOOLEAN,
     baselineYearThreshold : {0, 2023}]

InitLookup ==
    /\ currentFramework = Null
    /\ pc = "idle"
    /\ doc = NoScript
    /\ parsed = NoParse
    /\ ir = NoIR
    /\ compiled = NoCode
    /\ files = Empty
    /\ req = Empty
    /\ child = Empty
    /\ assertion = Empty
    /\ \E c \in Configs, fs \in Registries :
          lib = [op |-> "createFeatureLookupMap", config |-> c, features |-> fs,
                 done |-> FALSE, lookupMap |-> Empty]

\* createFeatureLookupMap(config) is called and returns
CallCreateFeatureLookupMap ==
    /\ lib.op = "createFeatureLookupMap" /\ ~lib.done
    /\ lib' = [lib EXCEPT !.done = TRUE,
                          !.lookupMap = createFeatureLookupMap(lib.config, lib.features)]
    /\ UNCHANGED <<currentFramework, pc, doc, parsed, ir, compiled, files, req, child, assertion>>

NextLookup == CallCreateFeatureLookupMap

SpecLookup == InitLookup /\ [][NextLookup]_vars

\* entry i of the registry is included by config and maps to identifier k
MapsTo(features, config, i, k) ==
    LET data == features[i]
    IN /\ data.compatKey # Null
       /\ StatusLabel(data.baseline) # Null
       /\ shouldIncludeFeature(data, StatusLabel(data.baseline), config)
       /\ KeyOf(data.compatKey) = k
       /\ (k \notin basicProperties \/ isSpecificFeature(data.featureId))
Identifiers == {"gap", "container", "margin", "layer"}
StatusOf(features, i) == StatusLabel(features[i].baseline)

\* C16 (as claimed): when two included entries map to one identifier, one Not
\* Baseline and one High Baseline, the map holds the Not Baseline record for
\* it, whichever of the two comes first.
C16_NotBaselineBeatsHigh ==
    lib.done =>
        \A k \in Identifiers : \A i, j \in 1..Len(lib.features) :
            (/\ MapsTo(lib.features, lib.config, i, k) /\ StatusOf(lib.features, i) = "Not Baseline"
             /\ MapsTo(lib.features, lib.config, j, k) /\ StatusOf(lib.features, j) = "High Baseline") =>
                /\ Has(lib.lookupMap, k)
                /\ lib.lookupMap[k].status = "Not Baseline"

\* how restrictive a status is, and the entries that map to an identifier
Restrictiveness(status) ==
    CASE status = "Not Baseline" -> 3
      [] status = "Low Baseline" -> 2
      [] OTHER -> 1
EntriesFor(features, config, k) == {i \in 1..Len(features) : MapsTo(features, config, i, k)}
\* the entry the rule names: of the most restrictive status, and the last of those
Winner(features, config, k) ==
    CHOOSE i \in EntriesFor(features, config, k) :
        \A j \in EntriesFor(features, config, k) :
            \/ Restrictiveness(StatusOf(features, j)) < Restrictiveness(StatusOf(features, i))
            \/ (StatusOf(features, j) = StatusOf(features, i) /\ j <= i)

\* C17 (as claimed): for every identifier some included entry maps to, the
\* map holds one record, that of the entry with the most restrictive status
\* (Not over Low over High) and, among those, the one processed last.
C17_MostRestrictiveWins ==
    lib.done =>
        \A k \in Identifiers :
            EntriesFor(lib.features, lib.config, k) # {} =>
                /\ Has(lib.lookupMap, k)
                /\ lib.lookupMap[k].status = StatusOf(lib.features, Winner(lib.features, lib.config, k))
                /\ lib.lookupMap[k].featureId = lib.features[Winner(lib.features, lib.config, k)].featureId

\* ------------------------------------------------------------ processCssAst
\* A stylesheet as walk() visits it: the Rule and Atrule nodes in document
\* order. A Rule has its selector text, the names of the pseudo-classes and
\* pseudo-elements of its prelude and the declarations of its block; an Atrule
\* has its name, its prelude text, whether it has a block, and the
\* declarations directly in it. A declaration has its property, whether its
\* value text holds a ui-* font name, and the Function and Identifier nodes
\* of its value. Texts are kept as tuples of their pieces: the selector of an
\* at-rule is <<"@", name, prelude>>, an issue's property <<property, value>>.
Rule(selector, pseudos, declarations) ==
    [type |-> "Rule", selector |-> <<selector>>, name |-> Null, prelude |-> Null,
     pseudos |-> pseudos, block |-> TRUE, declarations |-> declarations]
Atrule(name, prelude, block, declarations) ==
    [type |-> "Atrule", selector |-> Null, name |-> name, prelude |-> prelude,
     pseudos |-> <<>>, block |-> block, declarations |-> declarations]
Declaration(property, uiFont, values) ==
    [property |-> property, uiFont |-> uiFont, values |-> values]
Function(name) == [type |-> "Function", name |-> name]
Identifier(name) == [type |-> "Identifier", name |-> name]

\* featureLookupMap.get(name), and the featureInfo literals of the walk
NoInfo == Info(Null, Null, Null)
Get(map, name) == IF Has(map, name) THEN map[name] ELSE NoInfo
Literal(featureId, status) == Info(featureId, status, Null)
\* the issue pushed: its description, year and browser support are those of
\* the featureInfo, written "registry" for a record of the lookup map and
\* "literal" for a featureInfo object of the walk (features[id]?.description
\* or a fixed text)
Issue(property, featureInfo) ==
    [property |-> property, status |-> featureInfo.status, featureId |-> featureInfo.featureId,
     description |-> IF featureInfo.compatKey = Null THEN "literal" ELSE "registry"]

\* reportMap: the entries in insertion order, each a selector with its issues
HasSelector(reportMap, selector) ==
    \E i \in 1..Len(reportMap) : reportMap[i].selector = selector
IssuesOf(reportMap, selector) ==
    IF HasSelector(reportMap, selector)
    THEN reportMap[CHOOSE i \in 1..Len(reportMap) : reportMap[i].selector = selector].issues
    ELSE <<>>
\* if (!reportMap.has(s)) reportMap.set(s, []); reportMap.get(s).push(issue)
Push(reportMap, selector, issue) ==
    IF HasSelector(reportMap, selector)
    THEN [i \in 1..Len(reportMap) |->
            IF reportMap[i].selector = selector
            THEN [reportMap[i] EXCEPT !.issues = Append(@, issue)]
            ELSE reportMap[i]]
    ELSE Append(reportMap, [selector |-> selector, issues |-> <<issue>>])
\* i.property.includes(name), over the words of the stylesheets modelled
\* (none of which is a proper part of another)
PropertyIncludes(property, name) == \E w \in 1..Len(property) : property[w] = name
Some(issues, P(_)) == \E i \in 1..Len(issues) : P(issues[i])

\* the pseudo-classes and pseudo-elements of a Rule's prelude (lines 307-368)
PseudoInfo(map, name) ==
    CASE name = "backdrop" -> Literal("backdrop", "High Baseline")
      [] name = "has" -> Literal("has", "Low Baseline")
      [] name \in {"is", "where"} -> Literal("is-where-selectors", "High Baseline")
      [] OTHER -> Get(map, name)
RECURSIVE WalkSelector(_, _, _, _, _, _)
WalkSelector(reportMap, selector, pseudos, i, map, config) ==
    IF i > Len(pseudos) THEN reportMap
    ELSE LET name == pseudos[i]
             featureInfo == PseudoInfo(map, name)
             Same(issue) == issue.property = <<name>>
         IN WalkSelector(
                IF /\ featureInfo # NoInfo
                   /\ shouldIncludeStatus(featureInfo.status, config)
                   /\ ~Some(IssuesOf(reportMap, selector), Same)
                THEN Push(reportMap, selector, Issue(<<name>>, featureInfo))
                ELSE reportMap,
                selector, pseudos, i + 1, map, config)

\* an at-rule itself (lines 370-419): @container is told apart by its prelude
IsStyleQuery(prelude) == prelude \in {"style(--theme: dark)", "(--wide)"}
\* (as AtruleInfo, but @container is looked up like any other at-rule)
AtruleInfo_Lookup(map, atRuleName, prelude) == Get(map, atRuleName)
AtruleInfo(map, atRuleName, prelude) ==
    IF atRuleName = "container"
    THEN IF IsStyleQuery(prelude)
         THEN IF Has(map, "container-style-queries") THEN map["container-style-queries"]
              ELSE Literal("container-style-queries", "Not Baseline")
         ELSE Literal("container-queries", "Low Baseline")
    ELSE Get(map, atRuleName)
AtRuleSelector(atRuleName, prelude) == <<"@", atRuleName, prelude>>
VisitAtrule(reportMap, node, map) ==
    LET featureInfo == AtruleInfo(map, node.name, node.prelude)
    IN IF featureInfo # NoInfo
       THEN Push(reportMap, AtRuleSelector(node.name, node.prelude),
                 Issue(<<"@", node.name>>, featureInfo))
       ELSE reportMap

\* the declarations of a block (lines 431-631)
wellSupportedProperties ==
    {"display", "margin", "margin-top", "margin-right", "margin-bottom", "margin-left",
     "padding", "padding-top", "padding-right", "padding-bottom", "padding-left",
     "width", "height", "min-width", "max-width", "min-height", "max-height",
     "color", "background", "background-color", "background-image",
     "border", "border-color", "border-width", "border-style",
     "position", "top", "right", "bottom", "left",
     "float", "text-align", "font-family", "font-size", "font-weight",
     "flex-direction", "align-items", "justify-content", "align-content",
     "cursor", "overflow", "z-index", "opacity", "visibility",
     "transition", "animation", "transform", "box-shadow", "outline", "resize", "content"}
\* property.includes('-block') || property.includes('-inline')
IsLogical(property) == property \in {"margin-block", "margin-inline", "padding-block", "padding-inline"}
PropertyInfo(map, property) ==
    IF IsLogical(property) THEN Literal("logical-properties", "High Baseline")
    ELSE IF property \in wellSupportedProperties THEN NoInfo
    ELSE Get(map, property)
commonValues ==
    {"block", "inline", "flex", "grid", "none", "auto", "inherit", "initial",
     "center", "left", "right", "top", "bottom", "middle", "baseline",
     "start", "end", "stretch", "space-between", "space-around", "space-evenly",
     "row", "column", "wrap", "nowrap", "reverse", "hidden", "visible",
     "scroll", "fixed", "absolute", "relative", "static", "sticky",
     "solid", "dashed", "dotted", "double", "groove", "ridge", "inset", "outset",
     "transparent", "currentcolor", "white", "black", "red", "green", "blue",
     "bold", "normal", "italic", "underline", "overline", "line-through",
     "pointer", "default", "text", "crosshair", "move", "help", "wait",
     "serif", "sans-serif", "monospace", "cursive", "fantasy",
     "small", "medium", "large", "x-small", "x-large", "xx-small", "xx-large",
     "border-box", "content-box", "padding-box", "fill", "contain", "cover"}
FunctionInfo(map, functionName) ==
    CASE functionName \in {"clamp", "min", "max"} -> Literal("min-max-clamp", "High Baseline")
      [] functionName \in {"oklch", "oklab"} -> Literal("oklab", "Low Baseline")
      [] functionName = "anchor" -> Literal("anchor-positioning", "Not Baseline")
      [] OTHER -> Get(map, functionName)

\* one node of a declaration's value (lines 520-628)
VisitValue(reportMap, selector, property, valueChild, map, config) ==
    IF valueChild.type = "Function"
    THEN LET valueFeatureInfo == FunctionInfo(map, valueChild.name)
             propAndValue == <<property, valueChild.name, "()">>
             Same(issue) == issue.property = propAndValue
         IN IF /\ valueFeatureInfo # NoInfo
               /\ shouldIncludeStatus(valueFeatureInfo.status, config)
               /\ ~Some(IssuesOf(reportMap, selector), Same)
            THEN Push(reportMap, selector, Issue(propAndValue, valueFeatureInfo))
            ELSE reportMap
    ELSE LET identifierFeatureInfo == Get(map, valueChild.name)
             Names(issue) == PropertyIncludes(issue.property, valueChild.name)
         IN IF /\ valueChild.name \notin commonValues
               /\ identifierFeatureInfo # NoInfo
               /\ shouldIncludeStatus(identifierFeatureInfo.status, config)
               /\ ~Some(IssuesOf(reportMap, selector), Names)
            THEN Push(reportMap, selector, Issue(<<property, valueChild.name>>, identifierFeatureInfo))
            ELSE reportMap
RECURSIVE WalkValue(_, _, _, _, _, _, _)
WalkValue(reportMap, selector, property, values, i, map, config) ==
    IF i > Len(values) THEN reportMap
    ELSE WalkValue(VisitValue(reportMap, selector, property, values[i], map, config),
                   selector, property, values, i + 1, map, config)

\* one declaration: its property (pushed without a look at config), the
\* ui-* font names, then its value
VisitDeclaration(reportMap, selector, declaration, map, config, features) ==
    LET property == declaration.property
        propertyFeatureInfo == PropertyInfo(map, property)
        shouldCheckProperty ==
            /\ propertyFeatureInfo # NoInfo
            /\ propertyFeatureInfo.status \in {"Not Baseline", "Low Baseline"}
        afterProperty ==
            IF shouldCheckProperty
            THEN Push(reportMap, selector, Issue(<<property>>, propertyFeatureInfo))
            ELSE reportMap
        afterFont ==
            IF property = "font-family" /\ declaration.uiFont /\ HasFeature(features, "font-family-ui")
            THEN Push(afterProperty, selector,
                      Issue(<<property, "(ui-* values)">>, Literal("font-family-ui", "Not Baseline")))
            ELSE afterProperty
    IN WalkValue(afterFont, selector, property, declaration.values, 1, map, config)
RECURSIVE WalkDeclarations(_, _, _, _, _, _, _)
WalkDeclarations(reportMap, selector, declarations, i, map, config, features) ==
    IF i > Len(declarations) THEN reportMap
    ELSE WalkDeclarations(
            VisitDeclaration(reportMap, selector, declarations[i], map, config, features),
            selector, declarations, i + 1, map, config, features)

\* the callback of walk(ast, ...) on one node, and the walk (lines 296-632)
VisitNode(reportMap, node, map, config, features) ==
    IF node.type = "Rule"
    THEN WalkDeclarations(
            WalkSelector(reportMap, node.selector, node.pseudos, 1, map, config),
            node.selector, node.declarations, 1, map, config, features)
    ELSE IF node.block
         THEN WalkDeclarations(VisitAtrule(reportMap, node, map),
                               AtRuleSelector(node.name, node.prelude),
                               node.declarations, 1, map, config, features)
         ELSE VisitAtrule(reportMap, node, map)
RECURSIVE WalkAst(_, _, _, _, _, _)
WalkAst(reportMap, ast, i, map, config, features) ==
    IF i > Len(ast) THEN reportMap
    ELSE WalkAst(VisitNode(reportMap, ast[i], map, config, features),
                 ast, i + 1, map, config, features)

\* Array.from(new Set(issues.map(JSON.stringify))).map(JSON.parse): the first
\* of each run of equal issues
\* (as Unique, but every issue is kept)
Unique_None(issues, i) == issues
RECURSIVE Unique(_, _)
Unique(issues, i) ==
    IF i > Len(issues) THEN <<>>
    ELSE IF \E j \in 1..(i - 1) : issues[j] = issues[i]
         THEN Unique(issues, i + 1)
         ELSE <<issues[i]>> \o Unique(issues, i + 1)
\* (as KeepIssue, but every issue collected is kept)
KeepIssue_All(issue, config) == TRUE
\* the filter of the final report (lines 639-651)
KeepIssue(issue, config) ==
    /\ ~(issue.status = "Not Baseline" /\ ~config.includeNotBaseline)
    /\ ~(issue.status = "Low Baseline" /\ ~ListIncludes(config.includeAvailability, "low"))
    /\ ~(issue.status = "High Baseline" /\ ~ListIncludes(config.includeAvailability, "high"))
KeepEntry(entry) == Len(entry.issues) > 0
FormatReport(reportMap, config) ==
    LET Keep(issue) == KeepIssue(issue, config)
        mapped == [i \in 1..Len(reportMap) |->
                      [selector |-> reportMap[i].selector,
                       issues |-> SelectSeq(Unique(reportMap[i].issues, 1), Keep)]]
    IN SelectSeq(mapped, KeepEntry)

\* processCssAst(ast, config) over the registry features: the reportMap the
\* walk leaves, and the report returned
WalkedReportMap(ast, config, features) ==
    WalkAst(<<>>, ast, 1, createFeatureLookupMap(config, features), config, features)
processCssAst(ast, config, features) ==
    FormatReport(WalkedReportMap(ast, config, features), config)

\* ------------------------------------------------ processCssAst on its own
\* most nodes of a stylesheet
MaxNodes == 2
Nodes ==
    {Rule(".card", <<>>, <<Declaration("gap", FALSE, <<>>)>>),
     Rule(".card", <<>>, <<Declaration("transition", FALSE, <<Identifier("gap")>>),
                           Declaration("container", FALSE, <<Identifier("card")>>)>>),
     Rule(".a:has(img)", <<"has">>, <<Declaration("color", FALSE, <<Function("oklch")>>)>>),
     Rule("dialog::backdrop", <<"backdrop">>,
          <<Declaration("font-family", TRUE, <<Identifier("ui-serif")>>)>>),
     Rule(".tip:hover", <<"hover">>,
          <<Declaration("top", FALSE, <<Function("anchor"), Identifier("top")>>),
            Declaration("width", FALSE, <<Function("clamp")>>),
            Declaration("margin-block", FALSE, <<>>)>>),
     Atrule("container", "(min-width: 400px)", TRUE, <<>>),
     Atrule("container", "style(--theme: dark)", TRUE, <<>>),
     Atrule("layer", "base", FALSE, <<>>),
     Atrule("media", "(min-width: 600px)", TRUE, <<>>),
     Atrule("font-face", "", TRUE,
            <<Declaration("font-family", TRUE, <<Identifier("ui-serif")>>),
              Declaration("gap", FALSE, <<>>)>>)}
Stylesheets == UNION {[1..n -> Nodes] : n \in 0..MaxNodes}
\* registries of the features the stylesheets touch, all at one level
CssRegistry(baseline, year, withUiFonts) ==
    <<Feature("grid", baseline, year, "css.properties.gap"),
      Feature("container-queries", baseline, year, "css.at-rules.container"),
      Feature("cascade-layers", baseline, year, "css.at-rules.layer")>>
    \o (IF withUiFonts
        THEN <<Feature("font-family-ui", "false", 0, "css.properties.font-family.ui-serif")>>
        ELSE <<>>)
CssRegistries ==
    {CssRegistry(b[1], b[2], u) : b \in {<<"false", 0>>, <<"low", 0>>, <<"high", 2020>>},
                                  u \in BOOLEAN}

InitCss ==
    /\ currentFramework = Null
    /\ pc = "idle"
    /\ doc = NoScript
    /\ parsed = NoParse
    /\ ir = NoIR
    /\ compiled = NoCode
    /\ files = Empty
    /\ req = Empty
    /\ child = Empty
    /\ assertion = Empty
    /\ \E c \in Configs, fs \in CssRegistries, ast \in Stylesheets :
          lib = [op |-> "processCssAst", config |-> c, features |-> fs, ast |-> ast,
                 done |-> FALSE, reportMap |-> <<>>, report |-> <<>>]

\* processCssAst(ast, config) is called and returns
CallProcessCssAst ==
    /\ lib.op = "processCssAst" /\ ~lib.done
    /\ lib' = [lib EXCEPT !.done = TRUE,
                          !.reportMap = WalkedReportMap(lib.ast, lib.config, lib.features),
                          !.report = processCssAst(lib.ast, lib.config, lib.features)]
    /\ UNCHANGED <<currentFramework, pc, doc, parsed, ir, compiled, files, req, child, assertion>>

NextCss == CallProcessCssAst

SpecCss == InitCss /\ [][NextCss]_vars

\* the issues of a report or of a reportMap, and what config allows
AllIssues(entries) ==
    UNION {{entries[i].issues[j] : j \in 1..Len(entries[i].issues)} : i \in 1..Len(entries)}
Allowed(status, config) ==
    CASE status = "Not Baseline" -> config.includeNotBaseline
      [] status = "Low Baseline" -> "low" \in config.includeAvailability
      [] status = "High Baseline" -> "high" \in config.includeAvailability
      [] OTHER -> FALSE
OnlyLowOrNot(entries) ==
    \A issue \in AllIssues(entries) : issue.status \in {"Low Baseline", "Not Baseline"}

\* C18: every issue of the report returned by processCssAst has a status
\* config allows (Not Baseline only with includeNotBaseline, Low Baseline only
\* with 'low' in includeAvailability, High Baseline only with 'high') and no
\* entry has an empty issue list; so under includeAvailability ['high'] and
\* includeNotBaseline false a stylesheet whose findings are all Low or Not
\* Baseline gives the empty report.
C18_ReportRespectsConfig ==
    (lib.op = "processCssAst" /\ lib.done) =>
        /\ \A i \in 1..Len(lib.report) : Len(lib.report[i].issues) > 0
        /\ \A issue \in AllIssues(lib.report) : Allowed(issue.status, lib.config)
        /\ (/\ lib.config.includeAvailability = {"high"}
            /\ ~lib.config.includeNotBaseline
            /\ OnlyLowOrNot(lib.reportMap)) => lib.report = <<>>
\* a stylesheet whose findings were collected by the walk, all Low or Not
\* Baseline, and dropped from the report of a high-only config
C18_Witness ==
    /\ lib.op = "processCssAst" /\ lib.done
    /\ lib.config.includeAvailability = {"high"}
    /\ ~lib.config.includeNotBaseline
    /\ AllIssues(lib.reportMap) # {}
    /\ OnlyLowOrNot(lib.reportMap)
    /\ lib.report = <<>>

\* --------------------------------------------------------- highlightElements
\* highlightElements(browserObject, report, framework): the hover card is
\* injected with one evaluate call, then one evaluate call is made per report
\* entry whose selector is not an at-rule's. Each await is a step; a call into
\* the page may reject (a selector querySelectorAll refuses, a page that
\* navigated away, an argument the backend does not take).
MaxEntries == 3
ReportSelectors == {<<".card">>, <<".a:has(img)">>, <<"@", "container", "(min-width: 400px)">>}
Reports == UNION {[1..n -> ReportSelectors] : n \in 0..MaxEntries}
\* 'executeScript' for selenium, 'evaluate' otherwise
evaluateFunction(framework) == IF framework = "selenium" THEN "executeScript" ELSE "evaluate"
\* entry.selector.startsWith('@')
StartsWithAt(selector) == selector[1] = "@"

InitHighlight ==
    /\ currentFramework = Null
    /\ pc = "idle"
    /\ doc = NoScript
    /\ parsed = NoParse
    /\ ir = NoIR
    /\ compiled = NoCode
    /\ files = Empty
    /\ req = Empty
    /\ child = Empty
    /\ assertion = Empty
    /\ \E fw \in Frameworks, report \in Reports :
          lib = [op |-> "highlightElements", framework |-> fw, report |-> report,
                 at |-> "inject", i |-> 1, calls |-> <<>>, attempted |-> {}, failed |-> {},
                 errors |-> <<>>, propagated |-> FALSE]

\* (as AfterEntryFailure, but the rejection reaches the outer catch)
AfterEntryFailure_Outer(report, i) == Len(report) + 1
\* the catch around one entry's call ends with continue: the next entry
AfterEntryFailure(report, i) == i + 1

\* the first call: it resolves, or rejects into the outer catch, which logs
\* and lets the function return
InjectHoverCard ==
    /\ lib.op = "highlightElements" /\ lib.at = "inject"
    /\ \E resolves \in BOOLEAN :
          lib' = IF resolves
                 THEN [lib EXCEPT !.at = "loop",
                                  !.calls = Append(@, evaluateFunction(lib.framework))]
                 ELSE [lib EXCEPT !.at = "returned",
                                  !.calls = Append(@, evaluateFunction(lib.framework)),
                                  !.errors = Append(@, "Error highlighting elements on page")]
    /\ UNCHANGED <<currentFramework, pc, doc, parsed, ir, compiled, files, req, child, assertion>>

\* an at-rule's entry is passed over
SkipAtRule ==
    /\ lib.op = "highlightElements" /\ lib.at = "loop" /\ lib.i <= Len(lib.report)
    /\ StartsWithAt(lib.report[lib.i])
    /\ lib' = [lib EXCEPT !.i = @ + 1]
    /\ UNCHANGED <<currentFramework, pc, doc, parsed, ir, compiled, files, req, child, assertion>>

\* one entry's call: it resolves, or rejects into the catch around it
HighlightEntry ==
    /\ lib.op = "highlightElements" /\ lib.at = "loop" /\ lib.i <= Len(lib.report)
    /\ ~StartsWithAt(lib.report[lib.i])
    /\ \E resolves \in BOOLEAN :
          lib' = IF resolves
                 THEN [lib EXCEPT !.i = @ + 1,
                                  !.calls = Append(@, evaluateFunction(lib.framework)),
                                  !.attempted = @ \cup {lib.i}]
                 ELSE [lib EXCEPT !.i = AfterEntryFailure(lib.report, lib.i),
                                  !.calls = Append(@, evaluateFunction(lib.framework)),
                                  !.attempted = @ \cup {lib.i},
                                  !.failed = @ \cup {lib.i},
                                  !.errors = Append(@, "Error querying selector")]
    /\ UNCHANGED <<currentFramework, pc, doc, parsed, ir, compiled, files, req, child, assertion>>

\* the loop is over and the function returns to baselineScanPipeline
ReturnFromHighlight ==
    /\ lib.op = "highlightElements" /\ lib.at = "loop" /\ lib.i > Len(lib.report)
    /\ lib' = [lib EXCEPT !.at = "returned"]
    /\ UNCHANGED <<currentFramework, pc, doc, parsed, ir, compiled, files, req, child, assertion>>

NextHighlight == InjectHoverCard \/ SkipAtRule \/ HighlightEntry \/ ReturnFromHighlight

SpecHighlight == InitHighlight /\ [][NextHighlight]_vars

\* the entries a call is owed: those whose selector is not an at-rule's
Highlightable(report) == {i \in 1..Len(report) : ~StartsWithAt(report[i])}

\* C19: when the call for one report entry fails, the failure is caught: the
\* call is still made for every later entry whose selector does not start
\* with '@', and highlightElements returns normally, nothing propagated.
C19_EntryFailureIsolated ==
    (lib.op = "highlightElements" /\ lib.at = "returned" /\ lib.failed # {}) =>
        /\ ~lib.propagated
        /\ \A i \in lib.failed : \A j \in Highlightable(lib.report) : j > i => j \in lib.attempted
        /\ \A j \in DOMAIN lib.report : StartsWithAt(lib.report[j]) => j \notin lib.attempted
\* a failed entry followed by an at-rule's entry and by one that was called
C19_Witness ==
    /\ lib.op = "highlightElements" /\ lib.at = "returned"
    /\ \E i \in lib.failed : \E j, k \in DOMAIN lib.report :
          /\ i < j /\ i < k
          /\ StartsWithAt(lib.report[j])
          /\ k \in lib.attempted \ lib.failed

\* the baseline_scan payloads a script declares, in order, and the
\* baselineScanPipeline statements of a program, with the backend tag of each
ScanPayloads(d) ==
    LET IsScan(raw) == StepHas(raw, "baseline_scan")
        scans == SelectSeq(DeclaredSteps(d), IsScan)
    IN [n \in 1..Len(scans) |-> StepVal(scans[n], "baseline_scan")]
ScanTag(text) ==
    CASE text = "await baselineScanPipeline(page, ${config}, 'puppeteer')" -> "puppeteer"
      [] text = "await baselineScanPipeline(page, ${config}, 'playwright')" -> "playwright"
      [] text = "await baselineScanPipeline(driver, ${config}, 'selenium')" -> "selenium"
      [] OTHER -> Null
ScanCalls(code) ==
    LET IsCall(line) == ScanTag(line.text) # Null
    IN SelectSeq(code, IsCall)

\* C20 (as claimed): for each baseline_scan step, with availability A, year Y
\* and delay D, the compiled program has exactly one baselineScanPipeline call,
\* whose config has includeAvailability A, baselineYearThreshold Y and delay
\* D, with the not-baseline flag and the strictness, and whose backend
\* argument is the tag of the active framework.
C20_ScanCallCarriesConfig ==
    (pc = "compiled" /\ ~compiled.threw /\ Len(ScanPayloads(doc)) > 0) =>
        /\ Len(ScanCalls(compiled.code)) = Len(ScanPayloads(doc))
        /\ \A n \in 1..Len(ScanPayloads(doc)) :
              LET declared == ScanPayloads(doc)[n]
                  call == ScanCalls(compiled.code)[n]
              IN /\ call.args["includeAvailability"] = declared["availability"]
                 /\ call.args["baselineYearThreshold"] = declared["year"]
                 /\ Has(declared, "delay") =>
                        (Has(call.args, "delay") /\ call.args["delay"] = declared["delay"])
                 /\ Has(call.args, "includeNotBaseline") /\ Has(call.args, "strictness")
                 /\ ScanTag(call.text) = compiled.currentFramework

\* the issues reported for the at-rule itself of node n: those of its entry
\* whose property is the at-rule's name
AtruleIssues(entries, node) ==
    {issue \in AllIssues(entries) :
        /\ issue.property = <<"@", node.name>>
        /\ \E i \in 1..Len(entries) :
              /\ entries[i].selector = AtRuleSelector(node.name, node.prelude)
              /\ \E j \in 1..Len(entries[i].issues) : entries[i].issues[j] = issue}
ContainerNodes(ast) ==
    {n \in 1..Len(ast) : ast[n].type = "Atrule" /\ ast[n].name = "container"}
StyleMarkers(prelude) == prelude \in {"style(--theme: dark)", "(--wide)"}

\* C21: the issue reported for an at-rule named container is that of
\* container-style-queries when the prelude text contains 'style(' or '--',
\* and that of container-queries otherwise.
C21_ContainerStyleOrSize ==
    (lib.op = "processCssAst" /\ lib.done) =>
        \A n \in ContainerNodes(lib.ast) :
            /\ AtruleIssues(lib.reportMap, lib.ast[n]) # {}
            /\ \A issue \in AtruleIssues(lib.reportMap, lib.ast[n]) \cup AtruleIssues(lib.report, lib.ast[n]) :
                  issue.featureId = IF StyleMarkers(lib.ast[n].prelude)
                                    THEN "container-style-queries"
                                    ELSE "container-queries"
\* a report with a style query and a size query, each under its own feature
C21_Witness ==
    /\ lib.op = "processCssAst" /\ lib.done
    /\ \E n, m \in ContainerNodes(lib.ast) :
          /\ StyleMarkers(lib.ast[n].prelude) /\ ~StyleMarkers(lib.ast[m].prelude)
          /\ \E issue \in AtruleIssues(lib.report, lib.ast[n]) : issue.featureId = "container-style-queries"
          /\ \E issue \in AtruleIssues(lib.report, lib.ast[m]) : issue.featureId = "container-queries"

\* two issues of one list under the same featureId and property text
Repeats(issues) ==
    \E j, k \in 1..Len(issues) :
        /\ j < k
        /\ issues[j].featureId = issues[k].featureId
        /\ issues[j].property = issues[k].property

\* C22: in the report returned by processCssAst no selector's issue list has
\* two issues with the same featureId and the same property text, whatever
\* the stylesheet (repeated rules of one selector, repeated declarations).
C22_NoRepeatedIssue ==
    (lib.op = "processCssAst" /\ lib.done) =>
        \A i \in 1..Len(lib.report) : ~Repeats(lib.report[i].issues)
\* a selector whose issues were collected twice by the walk and are reported once
C22_Witness ==
    /\ lib.op = "processCssAst" /\ lib.done
    /\ \E i \in 1..Len(lib.reportMap) : \E r \in 1..Len(lib.report) :
          /\ Repeats(lib.reportMap[i].issues)
          /\ lib.report[r].selector = lib.reportMap[i].selector

\* ------------------------------------------------------ baselineScanPipeline
\* baselineScanPipeline(browserObject, config, framework): getCssCode, parse,
\* processCssAst, printBeautifiedReport, highlightElements, sleep, each await a
\* step, all inside one try/catch. The page serves one of a few stylesheets.
ScanPages ==
    {<<>>,
     <<Rule(".card", <<>>, <<Declaration("gap", FALSE, <<>>)>>)>>,
     <<Rule(".a:has(img)", <<"has">>, <<Declaration("color", FALSE, <<Function("oklch")>>)>>),
       Atrule("container", "(min-width: 400px)", TRUE, <<>>)>>,
     <<Atrule("layer", "base", FALSE, <<>>),
       Rule(".card", <<>>, <<Declaration("gap", FALSE, <<>>)>>),
       Rule(".a:has(img)", <<"has">>, <<Declaration("color", FALSE, <<Function("oklch")>>)>>)>>}
ScanConfigs ==
    {c \in Configs : c.baselineYearThreshold = 0 /\ c.includeNotBaseline}
ScanRegistry == CssRegistry("low", 0, TRUE)

InitScan ==
    /\ currentFramework = Null
    /\ pc = "idle"
    /\ doc = NoScript
    /\ parsed = NoParse
    /\ ir = NoIR
    /\ compiled = NoCode
    /\ files = Empty
    /\ req = Empty
    /\ child = Empty
    /\ assertion = Empty
    /\ \E fw \in Frameworks, c \in ScanConfigs, page \in ScanPages :
          lib = [op |-> "baselineScanPipeline", caller |-> "baselineScanPipeline",
                 framework |-> fw, config |-> c, page |-> page,
                 css |-> "none", ast |-> <<>>, analysis |-> <<>>, report |-> <<>>,
                 at |-> "getCssCode", i |-> 1, calls |-> <<>>, attempted |-> {}, failed |-> {},
                 errors |-> <<>>, propagated |-> FALSE, stages |-> <<>>, slept |-> <<>>]

\* await getCssCode(...): the stylesheet URLs are read from the page and
\* fetched; a rejection is caught inside getCssCode, which then returns
\* undefined
GetCssCode ==
    /\ lib.op = "baselineScanPipeline" /\ lib.at = "getCssCode"
    /\ \E resolves \in BOOLEAN :
          lib' = IF resolves
                 THEN [lib EXCEPT !.at = "parse", !.css = "text", !.stages = Append(@, "fetch"),
                                  !.calls = Append(@, evaluateFunction(lib.framework))]
                 ELSE [lib EXCEPT !.at = "parse", !.css = "undefined", !.stages = Append(@, "fetch"),
                                  !.calls = Append(@, evaluateFunction(lib.framework)),
                                  !.errors = Append(@, "Error extracting CSS code from webpage")]
    /\ UNCHANGED <<currentFramework, pc, doc, parsed, ir, compiled, files, req, child, assertion>>

\* parse(css), processCssAst(ast, config) and printBeautifiedReport run
\* without an await between them; parse(undefined) is css-tree's to decide: it
\* raises into the catch of the pipeline, or gives the empty stylesheet
ParseAndAnalyze ==
    /\ lib.op = "baselineScanPipeline" /\ lib.at = "parse"
    /\ \E raises \in {r \in BOOLEAN : r => lib.css = "undefined"} :
          lib' = IF raises
                 THEN [lib EXCEPT !.at = "done", !.stages = Append(@, "parse"),
                                  !.errors = Append(@, "Error performing baseline_scan")]
                 ELSE LET ast == IF lib.css = "text" THEN lib.page ELSE <<>>
                          report == processCssAst(ast, lib.config, ScanRegistry)
                      IN [lib EXCEPT !.op = "highlightElements", !.at = "inject",
                                     !.ast = ast, !.analysis = report,
                                     !.report = [n \in 1..Len(report) |-> report[n].selector],
                                     !.stages = @ \o <<"parse", "analyze">>]
    /\ UNCHANGED <<currentFramework, pc, doc, parsed, ir, compiled, files, req, child, assertion>>

\* (as HighlightAwaited, but the promise of highlightElements is not awaited)
HighlightAwaited_Not(l) == l.op = "highlightElements"
\* await highlightElements(...): the pipeline goes on when it has returned
HighlightAwaited(l) == l.op = "highlightElements" /\ l.at = "returned"

\* await sleep("1m"), then the pipeline returns
Sleep ==
    /\ "caller" \in DOMAIN lib /\ HighlightAwaited(lib) /\ lib.slept = <<>>
    /\ lib' = [lib EXCEPT !.stages = Append(@, "delay"),
                          !.slept = Append(@, parseTimeout("1m").timeout)]
    /\ UNCHANGED <<currentFramework, pc, doc, parsed, ir, compiled, files, req, child, assertion>>
ScanReturns ==
    /\ "caller" \in DOMAIN lib /\ lib.op = "highlightElements" /\ lib.at = "returned"
    /\ lib.slept # <<>>
    /\ lib' = [lib EXCEPT !.op = "baselineScanPipeline", !.at = "done"]
    /\ UNCHANGED <<currentFramework, pc, doc, parsed, ir, compiled, files, req, child, assertion>>

NextScan ==
    \/ GetCssCode \/ ParseAndAnalyze
    \/ InjectHoverCard \/ SkipAtRule \/ HighlightEntry \/ ReturnFromHighlight
    \/ Sleep \/ ScanReturns

SpecScan == InitScan /\ [][NextScan]_vars

\* the stages an execution has been through: those the pipeline logged, with
\* highlight from the first call highlightElements makes into the page
StageOrder == <<"fetch", "parse", "analyze", "highlight", "delay">>
HighlightBegun(l) == Len(l.calls) > 1
StagesSeen(l) ==
    IF ~HighlightBegun(l) THEN l.stages
    ELSE SubSeq(l.stages, 1, 3) \o <<"highlight">> \o SubSeq(l.stages, 4, Len(l.stages))
IsPrefix(s, t) == Len(s) <= Len(t) /\ s = SubSeq(t, 1, Len(s))
InScan == "caller" \in DOMAIN lib

Failed(call) ==
    call.outcome = IF Has(call.options, "throwOnFail") /\ call.options["throwOnFail"] = "false"
                   THEN "false" ELSE "throw"
\* exists: false is the assertion made: no text kind is asked for before it
AssertsAbsence(options) ==
    /\ Has(options, "exists") /\ options["exists"] = "false"
    /\ \A k \in {"contains", "equals", "matches"} : ~Has(options, k) \/ options[k] = ""

\* C24 (as claimed): when the selector matches no element the assertion fails
\* (it raises, or returns false under throwOnFail: false) whatever the kind,
\* except under exists: false, where the missing element makes the exists
\* assertion pass.
C24_MissingElementFails ==
    (assertion.via # "" /\ ~assertion.page.present) =>
        /\ ~(Has(assertion.options, "exists") /\ assertion.options["exists"] = "false") =>
              Failed(assertion)
        /\ AssertsAbsence(assertion.options) => assertion.outcome = "true"

\* ---------------------------------------------------- compile called directly
\* compile is exported: a caller may hand it any IR, one without a framework
\* command included, several times in one process.
MaxCalls == 3
DirectScripts ==
    {Script(fw, b, steps) : fw \in Frameworks, b \in Browsers,
                            steps \in {<<>>, <<GotoStep>>, <<CloseStep>>}}
\* the IR of a script, and the same IR without its framework command
IRs ==
    LET full == {generateIR(parse(d)).ast : d \in DirectScripts}
        IsNotFramework(line) == ~(line.named /\ line.cmd = "framework")
    IN full \cup {SelectSeq(lines, IsNotFramework) : lines \in full}

InitDirect ==
    /\ currentFramework = Null
    /\ pc = "idle"
    /\ doc = NoScript
    /\ parsed = NoParse
    /\ ir = NoIR
    /\ compiled = NoCode
    /\ files = Empty
    /\ req = Empty
    /\ child = Empty
    /\ assertion = Empty
    /\ lib = [op |-> "compile", calls |-> 0, ir |-> <<>>, before |-> Null,
              threw |-> FALSE, code |-> <<>>]

\* compile(ir) is called and returns or raises; currentFramework stays as the
\* call leaves it
CallCompile(lines) ==
    /\ lib.op = "compile" /\ lib.calls < MaxCalls
    /\ LET r == compile(lines, currentFramework)
       IN /\ lib' = [lib EXCEPT !.calls = @ + 1, !.ir = lines, !.before = currentFramework,
                                !.threw = r.threw, !.code = r.code]
          /\ currentFramework' = r.currentFramework
    /\ UNCHANGED <<pc, doc, parsed, ir, compiled, files, req, child, assertion>>

NextDirect == \E lines \in IRs : CallCompile(lines)

SpecDirect == InitDirect /\ [][NextDirect]_vars

\* C25 (as claimed): what compile(ir) returns depends on ir alone: for every
\* IR, one with no framework command included, it is what the first call of
\* a process gives, whatever was compiled before.
C25_CompileDependsOnIROnly ==
    (lib.op = "compile" /\ lib.calls > 0) =>
        /\ lib.threw = compile(lib.ir, Null).threw
        /\ lib.code = compile(lib.ir, Null).code

\* the requests the server is serving together
Served == {r \in Reqs : req[r].via = "run" /\ req[r].state = "waiting"}

\* C26 (as claimed): when two POST /run requests are served together, the
\* child spawned for each runs the program compiled from that request's own
\* script, never the file written for the other.
C26_ChildRunsOwnProgram ==
    \A r \in Served :
        ((\A q \in Reqs : req[q].via = "run") /\ child[r].state = "exited") =>
            child[r].program = req[r].compiled

\* C27 (as claimed): the CLI run without --compile-only executes the file it
\* has just written, the one at the --output path (output.js by default);
\* with --compile-only it spawns no child.
C27_CliRunsWhatItWrote ==
    \A r \in Reqs :
        (req[r].via = "main" /\ (\A q \in Reqs \ {r} : req[q].via = "")) =>
            /\ req[r].compileOnly => child[r].state = "none"
            /\ child[r].state = "exited" =>
                  /\ Has(files, req[r].outputFile)
                  /\ child[r].program = files[req[r].outputFile]
                  /\ child[r].program = req[r].compiled

\* C28 (as claimed): every issue of the report whose feature the registry
\* holds carries the status label of that registry entry (false: Not
\* Baseline, 'low': Low Baseline, true or 'high': High Baseline), and that
\* entry passes the inclusion rules of the lookup builder under the config,
\* the year threshold included.
C28_StatusFromRegistry ==
    (lib.op = "processCssAst" /\ lib.done) =>
        \A issue \in AllIssues(lib.report) :
            HasFeature(lib.features, issue.featureId) =>
                LET data == FeatureOf(lib.features, issue.featureId)
                IN /\ issue.status = StatusLabel(data.baseline)
                   /\ shouldIncludeFeature(data, StatusLabel(data.baseline), lib.config)

\* --------------------------------------------------------- monitor_chrome.sh
\* The monitor script as a sequential process (at is the command it is at)
\* next to Chrome, which it starts and which may exit on its own, and whose
\* DevTools endpoint comes up some time after the start. written, seen and
\* previous_url are not variables of the script: they record whether redis-cli
\* set has run since this Chrome was started, whether main's probe saw its
\* URL, and the URL of the Chrome before it.
Urls == {"ws://localhost:9222/devtools/browser/1", "ws://localhost:9222/devtools/browser/2"}

InitMonitor ==
    /\ currentFramework = Null
    /\ pc = "idle"
    /\ doc = NoScript
    /\ parsed = NoParse
    /\ ir = NoIR
    /\ compiled = NoCode
    /\ files = Empty
    /\ req = Empty
    /\ child = Empty
    /\ assertion = Empty
    /\ lib = [op |-> "monitor_chrome", at |-> "cleanup_processes",
              chrome |-> "none", up |-> FALSE, url |-> "", previous_url |-> "",
              chrome_pid |-> "", current_ws_url |-> "", CHROME_CDP_URL |-> "",
              published |-> <<>>, written |-> FALSE, seen |-> FALSE]

\* kill -0 "$chrome_pid"
Alive(l) == l.chrome_pid # "" /\ l.chrome = "running"
\* get_cdp_url: the webSocketDebuggerUrl of /json/version, "" when none
get_cdp_url(l) == IF l.chrome = "running" /\ l.up THEN l.url ELSE ""

\* (as cleanup_processes, but current_ws_url is left as it is)
cleanup_processes_KeepUrl(l) ==
    [l EXCEPT !.chrome = IF Alive(l) THEN "none" ELSE @, !.up = FALSE, !.chrome_pid = ""]
\* cleanup_processes: a live Chrome is killed and waited for; chrome_pid and
\* current_ws_url are emptied
cleanup_processes(l) ==
    [l EXCEPT !.chrome = IF Alive(l) THEN "none" ELSE @, !.up = FALSE,
              !.chrome_pid = "", !.current_ws_url = ""]

\* main: cleanup_processes at the head of the loop
CleanupProcesses ==
    /\ lib.op = "monitor_chrome" /\ lib.at = "cleanup_processes"
    /\ lib' = [cleanup_processes(lib) EXCEPT !.at = "start_chrome"]
    /\ UNCHANGED <<currentFramework, pc, doc, parsed, ir, compiled, files, req, child, assertion>>

\* main: start_chrome launches a new Chrome, with whatever URL it will have
StartChrome ==
    /\ lib.op = "monitor_chrome" /\ lib.at = "start_chrome"
    /\ \E u \in Urls :
          lib' = [lib EXCEPT !.at = "main.get_cdp_url", !.chrome = "running", !.up = FALSE,
                             !.chrome_pid = "pid", !.previous_url = lib.url, !.url = u,
                             !.written = FALSE, !.seen = FALSE]
    /\ UNCHANGED <<currentFramework, pc, doc, parsed, ir, compiled, files, req, child, assertion>>

\* main: ws_url=$(get_cdp_url); without a URL the loop starts over, with one
\* monitor_processes is entered
MainProbe ==
    /\ lib.op = "monitor_chrome" /\ lib.at = "main.get_cdp_url"
    /\ lib' = IF get_cdp_url(lib) = ""
              THEN [lib EXCEPT !.at = "cleanup_processes"]
              ELSE [lib EXCEPT !.at = "monitor.kill-0", !.seen = TRUE]
    /\ UNCHANGED <<currentFramework, pc, doc, parsed, ir, compiled, files, req, child, assertion>>

\* monitor_processes: sleep 2 and the check of Chrome; return 1 sends main to
\* the head of its loop
MonitorCheck ==
    /\ lib.op = "monitor_chrome" /\ lib.at = "monitor.kill-0"
    /\ lib' = IF lib.chrome_pid # "" /\ ~Alive(lib)
              THEN [lib EXCEPT !.at = "cleanup_processes"]
              ELSE [lib EXCEPT !.at = "monitor.get_cdp_url"]
    /\ UNCHANGED <<currentFramework, pc, doc, parsed, ir, compiled, files, req, child, assertion>>

\* monitor_processes: the probe, and the write when the URL is not the one held
MonitorProbe ==
    /\ lib.op = "monitor_chrome" /\ lib.at = "monitor.get_cdp_url"
    /\ LET new_ws_url == get_cdp_url(lib)
       IN lib' = IF new_ws_url = "" \/ new_ws_url = lib.current_ws_url
                 THEN [lib EXCEPT !.at = "monitor.kill-0"]
                 ELSE [lib EXCEPT !.at = "monitor.kill-0", !.current_ws_url = new_ws_url,
                                  !.CHROME_CDP_URL = new_ws_url,
                                  !.published = <<new_ws_url>>, !.written = TRUE]
    /\ UNCHANGED <<currentFramework, pc, doc, parsed, ir, compiled, files, req, child, assertion>>

\* Chrome: the DevTools endpoint answers from now on; the process exits
CdpEndpointUp ==
    /\ lib.op = "monitor_chrome" /\ lib.chrome = "running" /\ ~lib.up
    /\ lib' = [lib EXCEPT !.up = TRUE]
    /\ UNCHANGED <<currentFramework, pc, doc, parsed, ir, compiled, files, req, child, assertion>>
ChromeExits ==
    /\ lib.op = "monitor_chrome" /\ lib.chrome = "running"
    /\ lib' = [lib EXCEPT !.chrome = "exited", !.up = FALSE]
    /\ UNCHANGED <<currentFramework, pc, doc, parsed, ir, compiled, files, req, child, assertion>>

MonitorScript == CleanupProcesses \/ StartChrome \/ MainProbe \/ MonitorCheck \/ MonitorProbe
NextMonitor == MonitorScript \/ CdpEndpointUp \/ ChromeExits

SpecMonitor == InitMonitor /\ [][NextMonitor]_vars
\* the script is a running process: it always gets to its next command
SpecMonitorLive == SpecMonitor /\ WF_vars(MonitorScript)

MaxTimers == 4
Elements == {"e1", "e2", "e3"}

InitHover ==
    /\ currentFramework = Null
    /\ pc = "idle"
    /\ doc = NoScript
    /\ parsed = NoParse
    /\ ir = NoIR
    /\ compiled = NoCode
    /\ files = Empty
    /\ req = Empty
    /\ child = Empty
    /\ assertion = Empty
    /\ lib = [op |-> "hoverCard", pointer |-> "outside", visible |-> FALSE,
              hideTimeout |-> 0, showTimers |-> 0, olderShows |-> 0,
              currentHoveredElement |-> Null, innerHTML |-> Null]

\* window.showBaselineCard
showBaselineCard(l) == [l EXCEPT !.hideTimeout = 0, !.olderShows = 0, !.visible = TRUE]
\* window.hideBaselineCard(delay): the pending hide timer is replaced
hideBaselineCard(l, delay) == [l EXCEPT !.hideTimeout = delay, !.olderShows = l.showTimers]

\* el.addEventListener('mouseenter', ...)
ElementMouseEnter(el) ==
    /\ lib.op = "hoverCard" /\ lib.pointer = "outside"
    /\ lib.showTimers < MaxTimers
    /\ lib' = [lib EXCEPT !.pointer = el, !.currentHoveredElement = el, !.innerHTML = el,
                          !.showTimers = @ + 1]
    /\ UNCHANGED <<currentFramework, pc, doc, parsed, ir, compiled, files, req, child, assertion>>

\* el.addEventListener('mouseleave', ...)
ElementMouseLeave ==
    /\ lib.op = "hoverCard" /\ lib.pointer \in Elements
    /\ lib' = [hideBaselineCard(lib, 800) EXCEPT !.pointer = "outside"]
    /\ UNCHANGED <<currentFramework, pc, doc, parsed, ir, compiled, files, req, child, assertion>>

\* hoverCard.addEventListener('mouseenter', ...): the card is in the page
\* (pointer-events: auto) whether visible or not, once it has been positioned
CardMouseEnter ==
    /\ lib.op = "hoverCard" /\ lib.pointer = "outside" /\ lib.innerHTML # Null
    /\ lib' = [showBaselineCard(lib) EXCEPT !.pointer = "card"]
    /\ UNCHANGED <<currentFramework, pc, doc, parsed, ir, compiled, files, req, child, assertion>>

\* hoverCard.addEventListener('mouseleave', ...)
CardMouseLeave ==
    /\ lib.op = "hoverCard" /\ lib.pointer = "card"
    /\ lib' = [hideBaselineCard(lib, 200) EXCEPT !.pointer = "outside"]
    /\ UNCHANGED <<currentFramework, pc, doc, parsed, ir, compiled, files, req, child, assertion>>

\* the callback of mouseenter's setTimeout(..., 50); the oldest fires first
ShowTimerFires ==
    /\ lib.op = "hoverCard" /\ lib.showTimers > 0
    /\ lib' = [showBaselineCard(lib) EXCEPT !.showTimers = @ - 1]
    /\ UNCHANGED <<currentFramework, pc, doc, parsed, ir, compiled, files, req, child, assertion>>

\* the callback of hideBaselineCard's setTimeout
HideTimerFires ==
    /\ lib.op = "hoverCard" /\ lib.hideTimeout # 0 /\ lib.olderShows = 0
    /\ lib' = [lib EXCEPT !.visible = FALSE, !.hideTimeout = 0]
    /\ UNCHANGED <<currentFramework, pc, doc, parsed, ir, compiled, files, req, child, assertion>>

NextHover ==
    \/ \E el \in Elements : ElementMouseEnter(el)
    \/ ElementMouseLeave
    \/ CardMouseEnter
    \/ CardMouseLeave
    \/ ShowTimerFires
    \/ HideTimerFires

SpecHover == InitHover /\ [][NextHover]_vars
\* a pending timer fires
SpecHoverLive == SpecHover /\ WF_vars(ShowTimerFires) /\ WF_vars(HideTimerFires)

\* C30: once the pointer has left a highlighted element and stays outside
\* every highlighted element and the card, the card eventually is not
\* visible, whatever the order of the handlers and the timers.
C30_CardEventuallyHidden ==
    []((lib.op = "hoverCard" /\ [](lib.pointer = "outside")) => <>(~lib.visible))
====
